---- MODULE Spec2Model ----
(***************************************************************************)
(* A model of the datacop validation core (validator.go): the Validator    *)
(* and its Error Store, the Field chain, the Group and the conditional     *)
(* (When) chain.  Field keys and messages are strings, built and joined    *)
(* the way the code builds and joins them.  With it: the JSON form of a    *)
(* Validator, two threads sharing one Validator, and the predicate         *)
(* library (package is) applied to values of any dynamic type.             *)
(***************************************************************************)
EXTENDS Integers, Sequences, FiniteSets, TLC

\* ------------------------------------------------------------- bounds
\* The errors one Validator may hold, and the errors the Validator whose
\* order of errors is followed (v1) may hold.
MaxErrs == 2
MaxErrsLong == 3
\* The When calls made on one conditional chain (the first one included).
MaxWhenCalls == 3
\* The chain objects the caller holds at one time.
MaxFieldChains == 1
MaxWhens == 1
MaxGroups == 1
\* The failing checks the threads make on the Validator they share.
MaxRaceCalls == 3
\* The conditional chains held at one time where two of them are followed.
MaxHeldWhens == 2
\* The Field chains held at one time where the names have dots in them.
MaxDotChains == 2
\* The map objects and the backing arrays that exist at one time, and the
\* room append may leave behind the elements when it allocates.
MaxMaps == 4
MaxArrays == 12
MaxSpare == 1
\* The integers the predicates are applied to go up to MaxInt, the integers
\* they are built with up to MaxParam, the instants of the times up to MaxUnix.
MaxInt == 3
MaxParam == 2
MaxUnix == 3

\* ------------------------------------------------------------- inputs
Validators == {"v1", "v2"}
FieldNames == {"name"}
GroupNames == {"user"}
Values == {""}
Messages == {"a", "b", "c"}
TwoMessages == {"a", "b"}
\* The Validators whose chains the model follows, and the message of the full model.
ChainValidators == {"v1"}
OneMessage == {"a"}
\* Names with a literal dot in them: of groups, of the fields of groups, and
\* of fields outside any group.
DotGroupNames == {"a", "a.b"}
DotFieldNames == {"b.c", "c"}
DotPlainNames == {"a.b.c"}
\* The messages of the model that takes them literally: the empty one among them.
LiteralMessages == {"", "a"}
\* The Validators of whose ValidationErrors() and Errors() the caller keeps the result.
HeldValidators == {"v1"}
\* The threads (goroutines) that share a Validator, and the Validator they share.
Threads == {"t1", "t2"}
SharedValidator == "v1"

\* validator.go:10
StandaloneErrorKey == "__standalone__"

\* The nil *Validator a caller may pass where a Validator is expected.
NilValidator == "nil"

VARIABLES
    errors,      \* errors[v]: the map of Validator v, key -> sequence of ValidationError
    isNil,       \* isNil[v]: v.errors is the nil map (a Validator not built by New)
    fields,      \* the FieldValidation objects the caller holds
    whens,       \* the When objects the caller holds
    groups,      \* the Group objects the caller holds
    last,        \* the call made last: its name, receiver, arguments and result
    whenArgs,    \* whenArgs[i]: the arguments of the When calls made on whens[i], in order
    origin,      \* origin[i]: how fields[i] was made (Validator.Field or Group.Field)
    whenOrigin,  \* whenOrigin[i]: origin of the Field chain whens[i] was derived from
    recorded,    \* recorded[v]: the errors the calls on v recorded, in call order
    hist,        \* the calls made since construction, kept while they follow a scenario
    threads,     \* threads[t]: where thread t is in its call of Check, and its locals
    mutex,       \* the caller's lock around its calls: "free", or the thread holding it
    unsynced,    \* a call was made on the shared Validator without the caller's lock
    given,       \* the value of type any the caller applies predicates to
    verdict,     \* the predicate applied last to it, and what it returned
    heap,        \* the map objects and backing arrays behind the Validators
    held         \* what the caller keeps of a call of ValidationErrors or Errors

vars == <<errors, isNil, fields, whens, groups, last, whenArgs, origin,
          whenOrigin, recorded, hist, threads, mutex, unsynced, given, verdict,
          heap, held>>

RaceVars == <<threads, mutex, unsynced>>

PredVars == <<given, verdict>>

HeapVars == <<heap, held>>

\* ------------------------------------------------------------- strings
RECURSIVE Join(_, _)
\* strings.Join(elems, sep)
Join(elems, sep) ==
    IF Len(elems) = 0 THEN ""
    ELSE IF Len(elems) = 1 THEN elems[1]
    ELSE elems[1] \o sep \o Join(Tail(elems), sep)

\* ------------------------------------------------------------- the store
\* The empty map of make(map[string][]ValidationError).
EmptyStore == [k \in {} |-> <<>>]

\* Mutant of ValidationError: the message alone is kept, Field is left empty.
ValidationErrorBare(field, message) == [Field |-> "", Message |-> message]

\* type ValidationError struct { Field, Message }
ValidationError(field, message) == [Field |-> field, Message |-> message]

\* v.errors[field] of a Go map: the zero value (a nil slice) for a missing key.
Lookup(store, field) == IF field \in DOMAIN store THEN store[field] ELSE <<>>

\* messages[i] = err.Message
MessagesOf(errs) == [i \in 1..Len(errs) |-> errs[i].Message]

\* Mutants of AddErrorStore: the new error replaces the field's errors; it is
\* put before them.
AddErrorReplace(store, field, message) ==
    [k \in DOMAIN store \cup {field} |->
        IF k = field THEN <<ValidationError(field, message)>> ELSE store[k]]

AddErrorPrepend(store, field, message) ==
    [k \in DOMAIN store \cup {field} |->
        IF k = field
        THEN <<ValidationError(field, message)>> \o Lookup(store, field)
        ELSE store[k]]

\* Mutant of AddErrorStore: an empty message is taken for no error.
AddErrorSkipEmpty(store, field, message) ==
    IF message = "" THEN store
    ELSE [k \in DOMAIN store \cup {field} |->
             IF k = field
             THEN Append(Lookup(store, field), ValidationError(field, message))
             ELSE store[k]]

\* v.errors[field] = append(v.errors[field], ValidationError{field, message})
AddErrorStore(store, field, message) ==
    [k \in DOMAIN store \cup {field} |->
        IF k = field
        THEN Append(Lookup(store, field), ValidationError(field, message))
        ELSE store[k]]

\* Mutant of CheckStore: a passing check makes the field's entry all the same.
CheckStoreTouch(store, valid, field, message) ==
    IF ~valid THEN AddErrorStore(store, field, message)
    ELSE [k \in DOMAIN store \cup {field} |-> Lookup(store, k)]

\* Mutant of CheckStore: after a failure of the field the later checks of it
\* are not made.
CheckStoreShortCircuit(store, valid, field, message) ==
    IF ~valid /\ Len(Lookup(store, field)) = 0
    THEN AddErrorStore(store, field, message)
    ELSE store

\* Mutant of CheckStore: a passing check takes the field's errors away.
CheckStoreForget(store, valid, field, message) ==
    IF ~valid THEN AddErrorStore(store, field, message)
    ELSE [k \in DOMAIN store \ {field} |-> store[k]]

\* Validator.Check: the store after the call.
CheckStore(store, valid, field, message) ==
    IF ~valid THEN AddErrorStore(store, field, message) ELSE store

\* Mutant of CheckReturn: the failing branch falls through to return true.
CheckReturnTrue(valid) == TRUE

\* Validator.Check: the value returned.
CheckReturn(valid) == IF ~valid THEN FALSE ELSE TRUE

\* Mutant of WriteBack: the slice read before is left out of what is written.
WriteBackAlone(store, field, slice, message) ==
    [k \in DOMAIN store \cup {field} |->
        IF k = field THEN <<ValidationError(field, message)>> ELSE store[k]]

\* The write of AddError, v.errors[field] = append(slice, ValidationError{...}),
\* slice being the value of v.errors[field] the thread read before.
WriteBack(store, field, slice, message) ==
    [k \in DOMAIN store \cup {field} |->
        IF k = field THEN Append(slice, ValidationError(field, message)) ELSE store[k]]

\* Mutant of MergeStore: a Validator without errors takes nothing from the other.
MergeNonEmpty(store, other) ==
    IF DOMAIN store = {} THEN store
    ELSE [k \in DOMAIN store \cup DOMAIN other |->
             IF k \in DOMAIN other THEN Lookup(store, k) \o other[k] ELSE store[k]]

\* Mutant of MergeStore: v.errors[field] = errs, the other's errors replace
\* the field's own.
MergeOverwrite(store, other) ==
    [k \in DOMAIN store \cup DOMAIN other |->
        IF k \in DOMAIN other THEN other[k] ELSE store[k]]

\* Validator.Merge: for field, errs := range other.errors { append(...) }
MergeStore(store, other) ==
    [k \in DOMAIN store \cup DOMAIN other |->
        IF k \in DOMAIN other THEN Lookup(store, k) \o other[k] ELSE store[k]]

\* Mutant of ClearStore: every field's errors are cut to length 0, the keys stay.
ClearTruncate(store) == [k \in DOMAIN store |-> <<>>]

\* Validator.Clear: v.errors = make(map[string][]ValidationError)
ClearStore(store) == EmptyStore

\* ------------------------------------------------------------- queries
HasErrors(store) == Cardinality(DOMAIN store) > 0

HasErrorFor(store, field) == field \in DOMAIN store /\ Len(store[field]) > 0

\* Mutant of ErrorFor: the field's first message alone.
ErrorForFirst(store, field) ==
    IF field \in DOMAIN store /\ Len(store[field]) > 0
    THEN store[field][1].Message
    ELSE ""

ErrorFor(store, field) ==
    IF field \in DOMAIN store /\ Len(store[field]) > 0
    THEN Join(MessagesOf(store[field]), ", ")
    ELSE ""

HasStandaloneErrors(store) == HasErrorFor(store, StandaloneErrorKey)

\* Mutant of StandaloneErrors: the messages are read under the name Error()
\* prints for them.
StandaloneErrorsGlobal(store) ==
    IF "global" \in DOMAIN store
    THEN MessagesOf(store["global"])
    ELSE <<>>

\* nil (the empty sequence here) when the key is missing
StandaloneErrors(store) ==
    IF StandaloneErrorKey \in DOMAIN store
    THEN MessagesOf(store[StandaloneErrorKey])
    ELSE <<>>

Errors(store) ==
    [k \in {f \in DOMAIN store : Len(store[f]) > 0} |-> ErrorFor(store, k)]

ValidationErrors(store) == store

\* The orders in which range may visit the keys of the map.
KeyOrders(store) ==
    LET n == Cardinality(DOMAIN store)
    IN {o \in [1..n -> DOMAIN store] : \A i, j \in 1..n : i # j => o[i] # o[j]}

RECURSIVE FieldParts(_, _)
\* The loop of Validator.Error over the keys in the order range visits them.
FieldParts(store, order) ==
    IF Len(order) = 0 THEN <<>>
    ELSE LET field == order[1]
             rest  == FieldParts(store, Tail(order))
         IN IF field = StandaloneErrorKey THEN rest
            ELSE IF Len(store[field]) > 0
                 THEN <<field \o ": [" \o Join(MessagesOf(store[field]), ", ") \o "]">> \o rest
                 ELSE rest

\* Mutant of ErrorString: the standalone segment is put after the fields'.
ErrorStringGlobalLast(store, order) ==
    LET standalone == StandaloneErrors(store)
        head == IF Len(standalone) > 0
                THEN <<"global: [" \o Join(standalone, ", ") \o "]">>
                ELSE <<>>
    IN Join(FieldParts(store, order) \o head, " | ")

\* Validator.Error, for one order of the map iteration.
ErrorString(store, order) ==
    LET standalone == StandaloneErrors(store)
        head == IF Len(standalone) > 0
                THEN <<"global: [" \o Join(standalone, ", ") \o "]">>
                ELSE <<>>
    IN Join(head \o FieldParts(store, order), " | ")

\* Every string Validator.Error may return.
ErrorStrings(store) == {ErrorString(store, o) : o \in KeyOrders(store)}

\* ------------------------------------------------------------- JSON
\* The keys the model stores under, in the byte order in which encoding/json
\* writes the keys of a map.
KeyOrder == <<StandaloneErrorKey, "name", "user.name">>

\* A JSON object as encoding/json writes a map[string]string: its members,
\* <<name, text>>, in the order of the sorted keys.
JSONObjectOf(m) ==
    LET keys == SelectSeq(KeyOrder, LAMBDA k : k \in DOMAIN m)
    IN [i \in 1..Len(keys) |-> <<keys[i], m[keys[i]]>>]

\* The map a JSON object decodes to: for a name, the value of its last member.
MapOf(object) ==
    [k \in {object[i][1] : i \in 1..Len(object)} |->
        object[CHOOSE i \in 1..Len(object) :
                  /\ object[i][1] = k
                  /\ \A j \in (i + 1)..Len(object) : object[j][1] # k][2]]

\* Mutant of MarshalJSON: a field's text is its first message alone.
MarshalJSONFirst(store) ==
    LET texts == [k \in {f \in DOMAIN store : Len(store[f]) > 0} |->
                      store[k][1].Message]
    IN IF DOMAIN texts = {} THEN <<>>
       ELSE <<<<"fields", JSONObjectOf(texts)>>>>

\* Validator.MarshalJSON: the members of the object written for
\* struct { Errors map[string]string `json:"fields,omitempty"` }; omitempty
\* leaves the member out when the map has no entry.
MarshalJSON(store) ==
    LET texts == [k \in {f \in DOMAIN store : Len(store[f]) > 0} |->
                      ErrorFor(store, k)]
    IN IF DOMAIN texts = {} THEN <<>>
       ELSE <<<<"fields", JSONObjectOf(texts)>>>>

\* json.Unmarshal(data, &actual), actual a map[string]map[string]string.
Unmarshal(data) ==
    [n \in {data[i][1] : i \in 1..Len(data)} |->
        MapOf(data[CHOOSE i \in 1..Len(data) :
                      /\ data[i][1] = n
                      /\ \A j \in (i + 1)..Len(data) : data[j][1] # n][2])]

\* ------------------------------------------------------------- storage
\* The Error Store as Go keeps it: v.errors points to a map object (0 is the
\* nil map), the map holds a slice header for each key, and a slice header
\* points into a backing array (0 for the nil slice).
MapIds == 1..MaxMaps

ArrayIds == 1..MaxArrays

\* The nil slice, and the zero ValidationError of the room behind the elements.
NilSlice == [arr |-> 0, len |-> 0, cap |-> 0]

ZeroError == ValidationError("", "")

\* The elements of a slice.
Elems(H, h) == IF h.arr = 0 THEN <<>> ELSE SubSeq(H.arrays[h.arr], 1, h.len)

\* What a reader of the map object id finds: for each key its elements.
View(H, id) ==
    IF id = 0 THEN EmptyStore
    ELSE [k \in DOMAIN H.maps[id] |-> Elems(H, H.maps[id][k])]

\* The map objects in use, those the caller holds (refs) included, and the
\* backing arrays their slices point into.
LiveMaps(H, refs) == ({H.mapOf[v] : v \in Validators} \cup refs) \ {0}

LiveArrays(H, refs) ==
    UNION {{H.maps[i][k].arr : k \in DOMAIN H.maps[i]} : i \in LiveMaps(H, refs)} \ {0}

\* make(map[string][]ValidationError): a map object not in use.
NewMap(H, refs) ==
    CHOOSE i \in MapIds :
        /\ i \notin LiveMaps(H, refs)
        /\ \A j \in MapIds : j \notin LiveMaps(H, refs) => i <= j

\* The array append allocates: one not in use.
NewArray(H, refs) ==
    CHOOSE a \in ArrayIds :
        /\ a \notin LiveArrays(H, refs)
        /\ \A b \in ArrayIds : b \notin LiveArrays(H, refs) => a <= b

\* The place of a key among the keys of the model.
KeyIndex(k) == CHOOSE i \in 1..Len(KeyOrder) : KeyOrder[i] = k

\* Objects out of use are given back, and the objects in use are numbered
\* anew (the number of an object is nothing a program can see): the maps in
\* the order v1's, v2's, the caller's; an array by the first map and key
\* that point to it.  ref is the map the caller holds, or 0.
MapNumber(H, ref, i) ==
    LET m1 == H.mapOf["v1"]
        m2 == H.mapOf["v2"]
        n1 == IF m1 = 0 THEN 0 ELSE 1
        n2 == IF m2 = 0 \/ m2 = m1 THEN n1 ELSE n1 + 1
    IN IF i = 0 THEN 0
       ELSE IF i = m1 THEN 1
       ELSE IF i = m2 THEN n2
       ELSE IF i = ref THEN n2 + 1
       ELSE 0

\* The places (map and key) from which the array a is pointed to, as numbers.
Places(H, ref, a) ==
    UNION {{(MapNumber(H, ref, i) - 1) * Len(KeyOrder) + KeyIndex(k) :
               k \in {x \in DOMAIN H.maps[i] : H.maps[i][x].arr = a}} :
           i \in LiveMaps(H, {ref})}

ArrayNumber(H, ref, a) ==
    IF a = 0 THEN 0
    ELSE LET ps == Places(H, ref, a)
         IN CHOOSE p \in ps : \A q \in ps : p <= q

Collect(H, ref) ==
    LET live == LiveMaps(H, {ref})
        arrs == LiveArrays(H, {ref})
        number == [a \in arrs \cup {0} |-> ArrayNumber(H, ref, a)]
        mapAt == [n \in MapIds |-> {i \in live : MapNumber(H, ref, i) = n}]
        arrayAt == [p \in ArrayIds |-> {a \in arrs : number[a] = p}]
    IN [mapOf |-> [v \in Validators |-> MapNumber(H, ref, H.mapOf[v])],
        maps |-> [n \in MapIds |->
                    IF mapAt[n] = {} THEN EmptyStore
                    ELSE LET m == H.maps[CHOOSE i \in mapAt[n] : TRUE]
                         IN [k \in DOMAIN m |-> [m[k] EXCEPT !.arr = number[@]]]],
        arrays |-> [p \in ArrayIds |->
                      IF arrayAt[p] = {} THEN <<>>
                      ELSE H.arrays[CHOOSE a \in arrayAt[p] : TRUE]]]

\* The objects behind the Validators after construction: a map for each
\* Validator made by New(), the nil map for the others.
NewHeap(nil) ==
    [mapOf |-> [v \in Validators |->
                  IF nil[v] THEN 0 ELSE IF v = "v1" \/ nil["v1"] THEN 1 ELSE 2],
     maps |-> [i \in MapIds |-> EmptyStore],
     arrays |-> [a \in ArrayIds |-> <<>>]]

\* if v.errors == nil { v.errors = make(...) }
MakeIfNil(H, refs, v) ==
    IF H.mapOf[v] # 0 THEN H
    ELSE LET i == NewMap(H, refs)
         IN [H EXCEPT !.mapOf[v] = i, !.maps[i] = EmptyStore]

\* m[key] = append(m[key], elems...) on the map object id.  append writes
\* behind the elements when the capacity allows it; otherwise it allocates an
\* array with room for the elements and for spare more, and copies.
AppendTo(H, refs, id, key, elems, spare) ==
    LET h == IF key \in DOMAIN H.maps[id] THEN H.maps[id][key] ELSE NilSlice
        need == h.len + Len(elems)
        SetKey(hdr) ==
            [k \in DOMAIN H.maps[id] \cup {key} |-> IF k = key THEN hdr ELSE H.maps[id][k]]
    IN IF need <= h.cap
       THEN [mapOf |-> H.mapOf,
             maps |-> [H.maps EXCEPT ![id] = SetKey([h EXCEPT !.len = need])],
             arrays |-> [a \in ArrayIds |->
                            IF a = h.arr
                            THEN [j \in 1..h.cap |->
                                     IF j > h.len /\ j <= need
                                     THEN elems[j - h.len]
                                     ELSE H.arrays[a][j]]
                            ELSE H.arrays[a]]]
       ELSE LET a == NewArray(H, refs)
            IN [mapOf |-> H.mapOf,
                maps |-> [H.maps EXCEPT
                            ![id] = SetKey([arr |-> a, len |-> need, cap |-> need + spare])],
                arrays |-> [H.arrays EXCEPT
                              ![a] = Elems(H, h) \o elems \o [j \in 1..spare |-> ZeroError]]]

\* Validator.AddError on the objects.
HeapAddError(H, refs, v, field, message, spare) ==
    LET H1 == MakeIfNil(H, refs, v)
    IN AppendTo(H1, refs, H1.mapOf[v], field, <<ValidationError(field, message)>>, spare)

\* Mutant of HeapMerge: v.errors = other.errors, the Validator takes the
\* other's map for its own.
HeapMergeShare(H, refs, v, other, spare) ==
    [H EXCEPT !.mapOf[v] = H.mapOf[other]]

\* Validator.Merge on the objects: the keys of other.errors are visited one
\* by one, the elements found under each appended to those of v.
HeapMerge(H, refs, v, other, spare) ==
    LET H1 == MakeIfNil(H, refs, v)
        src == H1.mapOf[other]
        RECURSIVE Range(_, _)
        Range(Hc, keys) ==
            IF keys = {} THEN Hc
            ELSE LET k == CHOOSE x \in keys : TRUE
                 IN Range(AppendTo(Hc, refs, Hc.mapOf[v], k,
                                   Elems(Hc, Hc.maps[src][k]), spare),
                          keys \ {k})
    IN IF src = 0 THEN H1 ELSE Range(H1, DOMAIN H1.maps[src])

\* Mutant of HeapClear: the keys are deleted from the map v.errors points to.
HeapClearInPlace(H, refs, v) ==
    LET H1 == MakeIfNil(H, refs, v)
    IN [H1 EXCEPT !.maps[H1.mapOf[v]] = EmptyStore]

\* Validator.Clear on the objects: v.errors = make(...)
HeapClear(H, refs, v) ==
    LET i == NewMap(H, refs)
    IN [H EXCEPT !.mapOf[v] = i, !.maps[i] = EmptyStore]

\* ------------------------------------------------------------- chains
\* type FieldValidation struct { field, value, v }
MkFieldValidation(name, value, v) == [field |-> name, value |-> value, v |-> v]

\* type Group struct { name, v }
MkGroup(name, v) == [name |-> name, v |-> v]

\* type When struct { condition, field, value, v }
MkWhen(condition, f) ==
    [condition |-> condition, field |-> f.field, value |-> f.value, v |-> f.v]

\* Mutant of FullName: the two names are joined by a character that names
\* cannot hold.
FullNameSlash(group, name) == group \o "/" \o name

\* Mutant of FullName: the group's name is left out.
FullNameBare(group, name) == name

\* Group.Field: fullName := g.name + "." + name
FullName(group, name) == group \o "." \o name

\* Mutants of Narrow: the receiver is left as it was (the narrowed chain being
\* another object); the new condition replaces the running one; the two are
\* joined by OR.
NarrowNone(running, condition) == running

NarrowLast(running, condition) == condition

NarrowOr(running, condition) == running \/ condition

\* When.When: w.condition = w.condition && condition
Narrow(running, condition) == running /\ condition

\* Mutant of WhenCheckStore: the check is made whatever the condition.
WhenCheckAlways(w, store, valid, message) == CheckStore(store, valid, w.field, message)

\* When.Check: the store after the call.
WhenCheckStore(w, store, valid, message) ==
    IF w.condition THEN CheckStore(store, valid, w.field, message) ELSE store

\* ------------------------------------------------------------- values
\* A value of type any: its dynamic type and the value itself.  A string is
\* the sequence of its characters, a slice the sequence of its elements; the
\* nil interface has no dynamic type.
GoValue(type, val) == [type |-> type, val |-> val]

NilValue == GoValue("nil", <<>>)

\* A time.Time: its instant, in seconds, and its location.
Time(unix, loc) == [unix |-> unix, loc |-> loc]

\* The integer types the predicates are built for here.
IntTypes == {"int", "int64"}

\* The types whose values == cannot compare.
SliceTypes == {"[]int", "[]int64", "[]string"}

Lower ==
    {"a", "b", "c", "d", "e", "f", "g", "h", "i", "j", "k", "l", "m",
     "n", "o", "p", "q", "r", "s", "t", "u", "v", "w", "x", "y", "z"}

Upper ==
    {"A", "B", "C", "D", "E", "F", "G", "H", "I", "J", "K", "L", "M",
     "N", "O", "P", "Q", "R", "S", "T", "U", "V", "W", "X", "Y", "Z"}

Digit == {"0", "1", "2", "3", "4", "5", "6", "7", "8", "9"}

Alnum == Lower \cup Upper \cup Digit

\* The white space strings.TrimSpace cuts and \s matches.
White == {" ", "\t", "\n", "\r", "\f"}

RECURSIVE TrimLeft(_)
TrimLeft(s) == IF Len(s) > 0 /\ s[1] \in White THEN TrimLeft(Tail(s)) ELSE s

RECURSIVE TrimRight(_)
TrimRight(s) ==
    IF Len(s) > 0 /\ s[Len(s)] \in White
    THEN TrimRight(SubSeq(s, 1, Len(s) - 1))
    ELSE s

\* strings.TrimSpace
TrimSpace(s) == TrimRight(TrimLeft(s))

\* utf8.RuneCountInString
RuneCountInString(s) == Len(s)

\* v, ok := value.(T): ok.  Every value but the nil interface is an any.
TypeAssert(value, T) ==
    IF T = "any" THEN value.type # "nil" ELSE value.type = T

\* ------------------------------------------------------------- patterns
\* The regular expressions the package compiles.
rgxEmail == "rgxEmail"
rgxPhone == "rgxPhone"
HasUpper == "[A-Z]"
HasLower == "[a-z]"
HasDigit == "[0-9]"
UsernameChars == "^[a-zA-Z0-9_-]+$"

Patterns == {rgxEmail, rgxPhone, HasUpper, HasLower, HasDigit, UsernameChars}

\* The grave accent, which a string of the model cannot hold, by its code point.
Grave == "U+0060"

\* The class of the local part of rgxEmail: letters, digits and
\* . ! # $ % & ' * + / = ? ^ _ { | } ~ - and the grave accent.
LocalChars ==
    Alnum \cup {".", "!", "#", "$", "%", "&", "'", "*", "+", "/", "=", "?", "^",
                "_", Grave, "{", "|", "}", "~", "-"}

\* [a-zA-Z0-9](?:[a-zA-Z0-9-]{0,61}[a-zA-Z0-9])?(?:\.[a-zA-Z0-9](?:...)?)*
\* the labels between the dots have 1 to 63 characters, letters, digits and
\* hyphens, the first and the last no hyphen.
IsDomain(d) ==
    LET ends == {0, Len(d) + 1} \cup {i \in 1..Len(d) : d[i] = "."}
    IN /\ \A i \in 1..Len(d) : d[i] \in Alnum \cup {"-", "."}
       /\ \A a, b \in ends :
             (a < b /\ \A c \in ends : ~(a < c /\ c < b)) =>
                 /\ b - a - 1 >= 1
                 /\ b - a - 1 <= 63
                 /\ d[a + 1] \in Alnum
                 /\ d[b - 1] \in Alnum

\* rgxEmail: a local part, "@", a domain.
MatchEmail(s) ==
    \E k \in 2..Len(s) :
        /\ s[k] = "@"
        /\ \A i \in 1..(k - 1) : s[i] \in LocalChars
        /\ IsDomain(SubSeq(s, k + 1, Len(s)))

\* rgxPhone: ^\(?([0-9]{3})\)?[-.\s]?([0-9]{3})[-.\s]?([0-9]{4})$
MatchPhone(s) ==
    \E open, close, sep1, sep2 \in {0, 1} :
        LET d1 == open
            d2 == open + 3 + close + sep1
            d3 == d2 + 3 + sep2
        IN /\ Len(s) = d3 + 4
           /\ open = 1 => s[1] = "("
           /\ \A i \in 1..3 : s[d1 + i] \in Digit
           /\ close = 1 => s[d1 + 4] = ")"
           /\ sep1 = 1 => s[d2] \in {"-", "."} \cup White
           /\ \A i \in 1..3 : s[d2 + i] \in Digit
           /\ sep2 = 1 => s[d3] \in {"-", "."} \cup White
           /\ \A i \in 1..4 : s[d3 + i] \in Digit

\* regexp.MustCompile(pattern).MatchString(s), for the patterns of the package.
MatchString(pattern, s) ==
    CASE pattern = rgxEmail -> MatchEmail(s)
      [] pattern = rgxPhone -> MatchPhone(s)
      [] pattern = HasUpper -> \E i \in 1..Len(s) : s[i] \in Upper
      [] pattern = HasLower -> \E i \in 1..Len(s) : s[i] \in Lower
      [] pattern = HasDigit -> \E i \in 1..Len(s) : s[i] \in Digit
      [] pattern = UsernameChars ->
            Len(s) >= 1 /\ \A i \in 1..Len(s) : s[i] \in Alnum \cup {"_", "-"}

\* ------------------------------------------------------------- predicates
\* Each predicate with the arguments it was built with, then the value it is
\* applied to; T is the type argument of a generic predicate.

\* Required: a string is required when it is not blank, a slice when it has
\* elements, a time when it is not the zero time (the instant 0 here), a
\* number when it is not 0.
Required(value) ==
    CASE value.type = "nil" -> FALSE
      [] value.type = "string" -> TrimSpace(value.val) # <<>>
      [] value.type \in SliceTypes -> Len(value.val) > 0
      [] value.type = "time.Time" -> value.val.unix # 0
      [] value.type = "*time.Time" -> value.val.unix # 0
      [] value.type = "bool" -> value.val
      [] OTHER -> value.val # 0

\* Mutant of Between: an integer of another integer type is converted.
BetweenConverting(T, min, max, value) ==
    IF value.type \notin IntTypes THEN FALSE
    ELSE value.val >= min /\ value.val <= max

\* Mutant of Between: the upper bound is excluded.
BetweenExclusive(T, min, max, value) ==
    IF ~TypeAssert(value, T) THEN FALSE
    ELSE value.val >= min /\ value.val < max

Between(T, min, max, value) ==
    IF ~TypeAssert(value, T) THEN FALSE
    ELSE value.val >= min /\ value.val <= max

\* Equal: other is a value of type T; with T an interface type the dynamic
\* types are compared before the values.
Equal(T, other, value) ==
    IF ~TypeAssert(value, T) THEN FALSE
    ELSE value.type = other.type /\ value.val = other.val

\* v == other raises when T is an interface type and both operands hold a
\* value of one type that cannot be compared.
EqualRaises(T, other, value) ==
    /\ TypeAssert(value, T)
    /\ T = "any"
    /\ value.type = other.type
    /\ value.type \in SliceTypes

In(T, allowed, value) ==
    IF ~TypeAssert(value, T) THEN FALSE
    ELSE \E i \in 1..Len(allowed) : value.val = allowed[i]

AllIn(T, allowed, value) ==
    IF ~TypeAssert(value, "[]" \o T) THEN FALSE
    ELSE \A i \in 1..Len(value.val) :
            \E j \in 1..Len(allowed) : value.val[i] = allowed[j]

NoDuplicates(T, value) ==
    IF ~TypeAssert(value, "[]" \o T) THEN FALSE
    ELSE \A i, j \in 1..Len(value.val) : i < j => value.val[i] # value.val[j]

MinLength(min, value) ==
    IF ~TypeAssert(value, "string") THEN FALSE
    ELSE RuneCountInString(TrimSpace(value.val)) >= min

MaxLength(max, value) ==
    IF ~TypeAssert(value, "string") THEN FALSE
    ELSE RuneCountInString(TrimSpace(value.val)) <= max

Min(T, min, value) ==
    IF ~TypeAssert(value, T) THEN FALSE ELSE value.val >= min

Max(T, max, value) ==
    IF ~TypeAssert(value, T) THEN FALSE ELSE value.val <= max

GreaterThan(T, n, value) ==
    IF ~TypeAssert(value, T) THEN FALSE ELSE value.val > n

LessThan(T, n, value) ==
    IF ~TypeAssert(value, T) THEN FALSE ELSE value.val < n

GreaterOrEqual(T, n, value) ==
    IF ~TypeAssert(value, T) THEN FALSE ELSE value.val >= n

LessOrEqual(T, n, value) ==
    IF ~TypeAssert(value, T) THEN FALSE ELSE value.val <= n

\* time.Time.Before, time.Time.After: the instants are compared, whatever the
\* locations.
TimeBefore(u, t) == u.unix < t.unix

TimeAfter(u, t) == u.unix > t.unix

\* Mutant of Before: the time t itself is accepted.
BeforeOrAt(t, value) ==
    IF ~TypeAssert(value, "time.Time") THEN FALSE
    ELSE ~TimeAfter(value.val, t)

Before(t, value) ==
    IF ~TypeAssert(value, "time.Time") THEN FALSE
    ELSE TimeBefore(value.val, t)

After(t, value) ==
    IF ~TypeAssert(value, "time.Time") THEN FALSE
    ELSE TimeAfter(value.val, t)

BetweenTime(start, end, value) ==
    IF ~TypeAssert(value, "time.Time") THEN FALSE
    ELSE TimeAfter(value.val, start) /\ TimeBefore(value.val, end)

Match(pattern, value) ==
    IF ~TypeAssert(value, "string") THEN FALSE
    ELSE MatchString(pattern, value.val)

Email(value) ==
    IF ~TypeAssert(value, "string") THEN FALSE
    ELSE MatchString(rgxEmail, value.val)

Phone(value) ==
    IF ~TypeAssert(value, "string") THEN FALSE
    ELSE MatchString(rgxPhone, value.val)

Password(value) ==
    IF ~TypeAssert(value, "string") THEN FALSE
    ELSE /\ Required(value)
         /\ MinLength(8, value)
         /\ Match(HasUpper, value)
         /\ Match(HasLower, value)
         /\ Match(HasDigit, value)

Username(value) ==
    IF ~TypeAssert(value, "string") THEN FALSE
    ELSE /\ Required(value)
         /\ MinLength(3, value)
         /\ MaxLength(255, value)
         /\ Match(UsernameChars, value)

\* ------------------------------------------------------------- history
\* A call: its name, receiver (a Validator, or the index of a chain object),
\* arguments and result.
NoCall ==
    [op |-> "New", v |-> "v1", other |-> "v1", idx |-> 0, valid |-> TRUE,
     cond |-> TRUE, field |-> "", message |-> "", value |-> "", ret |-> TRUE,
     raised |-> FALSE]

Size(store) ==
    LET RECURSIVE Sum(_)
        Sum(S) == IF S = {} THEN 0
                  ELSE LET k == CHOOSE x \in S : TRUE
                       IN Len(store[k]) + Sum(S \ {k})
    IN Sum(DOMAIN store)

\* The caller stores a new object in slot i: a free slot, or one it reuses.
Put(seq, i, x) == IF i = Len(seq) + 1 THEN Append(seq, x) ELSE [seq EXCEPT ![i] = x]

AllTrue(bs) == \A i \in 1..Len(bs) : bs[i]

\* The scenarios of the specification, as calls on the fresh Validator v1.
ScenarioField == [NoCall EXCEPT !.op = "Field", !.idx = 1, !.field = "name"]

ScenarioMonotone ==
    <<ScenarioField,
      [NoCall EXCEPT !.op = "FieldValidation.When", !.idx = 1, !.cond = TRUE],
      [NoCall EXCEPT !.op = "When.Check", !.idx = 1, !.valid = FALSE, !.message = "a"],
      [NoCall EXCEPT !.op = "When.When", !.idx = 1, !.cond = FALSE],
      [NoCall EXCEPT !.op = "When.Check", !.idx = 1, !.valid = FALSE, !.message = "b"],
      [NoCall EXCEPT !.op = "When.When", !.idx = 1, !.cond = TRUE],
      [NoCall EXCEPT !.op = "When.Check", !.idx = 1, !.valid = FALSE, !.message = "c"]>>

ScenarioPlainFirst ==
    <<ScenarioField,
      [NoCall EXCEPT !.op = "FieldValidation.Check", !.idx = 1, !.valid = FALSE,
                     !.message = "a"],
      [NoCall EXCEPT !.op = "FieldValidation.When", !.idx = 1, !.cond = FALSE],
      [NoCall EXCEPT !.op = "When.Check", !.idx = 1, !.valid = FALSE, !.message = "b"]>>

ScenarioGroup ==
    <<[NoCall EXCEPT !.op = "Group", !.idx = 1, !.field = "user"],
      [NoCall EXCEPT !.op = "Group.Field", !.idx = 1, !.field = "name"],
      [NoCall EXCEPT !.op = "FieldValidation.Check", !.idx = 1, !.valid = FALSE,
                     !.message = "a"]>>

\* A call of Check(valid, message) on the Field chain fields[1].
ChainCheck(valid, message) ==
    [NoCall EXCEPT !.op = "FieldValidation.Check", !.idx = 1, !.valid = valid,
                   !.message = message]

\* Field(f, v).Check(b1, "a").Check(b2, "b").Check(b3, "c"), one check passing.
ScenarioFailFailPass ==
    <<ScenarioField, ChainCheck(FALSE, "a"), ChainCheck(FALSE, "b"), ChainCheck(TRUE, "c")>>

ScenarioFailPassFail ==
    <<ScenarioField, ChainCheck(FALSE, "a"), ChainCheck(TRUE, "b"), ChainCheck(FALSE, "c")>>

ScenarioPassFailFail ==
    <<ScenarioField, ChainCheck(TRUE, "a"), ChainCheck(FALSE, "b"), ChainCheck(FALSE, "c")>>

\* Field("a.b.c", x), Group("a").Field("b.c", x) and Group("a.b").Field("c", x)
\* on one Validator, a failing check on each: the second chain first, then
\* the first, then the third.
ScenarioDots ==
    <<[NoCall EXCEPT !.op = "Field", !.idx = 1, !.field = "a.b.c"],
      [NoCall EXCEPT !.op = "Group", !.idx = 1, !.field = "a"],
      [NoCall EXCEPT !.op = "Group.Field", !.idx = 2, !.field = "b.c"],
      [NoCall EXCEPT !.op = "FieldValidation.Check", !.idx = 2, !.valid = FALSE,
                     !.message = "a"],
      [NoCall EXCEPT !.op = "FieldValidation.Check", !.idx = 1, !.valid = FALSE,
                     !.message = "b"],
      [NoCall EXCEPT !.op = "Group", !.idx = 1, !.field = "a.b"],
      [NoCall EXCEPT !.op = "Group.Field", !.idx = 2, !.field = "c"],
      [NoCall EXCEPT !.op = "FieldValidation.Check", !.idx = 2, !.valid = FALSE,
                     !.message = "a"]>>

\* Two conditional chains started from one Field chain, the first narrowed
\* with When(false); then a failing check on each and on the Field chain.
ScenarioTwoWhens ==
    <<ScenarioField,
      [NoCall EXCEPT !.op = "FieldValidation.When", !.idx = 1, !.cond = TRUE],
      [NoCall EXCEPT !.op = "FieldValidation.When", !.idx = 2, !.cond = TRUE],
      [NoCall EXCEPT !.op = "When.When", !.idx = 1, !.cond = FALSE],
      [NoCall EXCEPT !.op = "When.Check", !.idx = 1, !.valid = FALSE, !.message = "a"],
      [NoCall EXCEPT !.op = "When.Check", !.idx = 2, !.valid = FALSE, !.message = "b"],
      [NoCall EXCEPT !.op = "FieldValidation.Check", !.idx = 1, !.valid = FALSE,
                     !.message = "a"]>>

\* A Field chain and a conditional chain given false are made, the Validator
\* is cleared, and a failing check is made on each of the two chains.
ScenarioAcrossClear ==
    <<ScenarioField,
      [NoCall EXCEPT !.op = "FieldValidation.Check", !.idx = 1, !.valid = FALSE,
                     !.message = "a"],
      [NoCall EXCEPT !.op = "FieldValidation.When", !.idx = 1, !.cond = FALSE],
      [NoCall EXCEPT !.op = "Clear", !.idx = 1],
      [NoCall EXCEPT !.op = "When.Check", !.idx = 1, !.valid = FALSE, !.message = "a"],
      [NoCall EXCEPT !.op = "FieldValidation.Check", !.idx = 1, !.valid = FALSE,
                     !.message = "a"]>>

\* v2 gets an error, is merged into v1, and then each gets an error of its own.
ScenarioMergeThenAdd ==
    <<[NoCall EXCEPT !.op = "AddError", !.v = "v2", !.field = "name", !.message = "a"],
      [NoCall EXCEPT !.op = "Merge", !.v = "v1", !.other = "v2"],
      [NoCall EXCEPT !.op = "AddError", !.v = "v1", !.field = "name", !.message = "b"],
      [NoCall EXCEPT !.op = "AddError", !.v = "v2", !.field = "name", !.message = "a"]>>

Scenarios ==
    {ScenarioMonotone, ScenarioPlainFirst, ScenarioGroup,
     ScenarioFailFailPass, ScenarioFailPassFail, ScenarioPassFailFail,
     ScenarioDots, ScenarioTwoWhens, ScenarioAcrossClear,
     ScenarioMergeThenAdd}

OffScenario == <<[NoCall EXCEPT !.op = "off"]>>

IsPrefix(h, s) == Len(h) <= Len(s) /\ SubSeq(s, 1, Len(h)) = h

\* hist after the call: the calls so far while they are the start of a scenario.
Follow(call) ==
    IF hist # OffScenario /\ \E s \in Scenarios : IsPrefix(Append(hist, call), s)
    THEN Append(hist, call)
    ELSE OffScenario

\* A call was made: last and hist.
Called(call) == last' = call /\ hist' = Follow(call)

ChainVars == <<fields, whens, groups, whenArgs, origin, whenOrigin>>

\* A predicate as built: its name, type argument and arguments.
Pred(name, T, a, b) == [name |-> name, T |-> T, a |-> a, b |-> b]

NoVerdict == [pred |-> Pred("none", "", 0, 0), result |-> FALSE, raised |-> FALSE]

\* What the caller holds of the results of ValidationErrors() and Errors():
\* nothing, the map object ValidationErrors() returned, or the map of texts
\* Errors() made.
Holding(kind, v, map, value) == [kind |-> kind, v |-> v, map |-> map, value |-> value]

NoneHeld == Holding("none", "v1", 0, <<>>)

\* The map object the caller holds, or 0.
HeldMap(h) == IF h.kind = "ValidationErrors" THEN h.map ELSE 0

\* A thread outside a call.
Idle == [pc |-> "idle", field |-> "", message |-> "", slice |-> <<>>]

\* ------------------------------------------------------------- construction
\* New(), or a Validator value that was never initialised (a nil map).
Init ==
    /\ errors = [v \in Validators |-> EmptyStore]
    /\ isNil \in [Validators -> BOOLEAN]
    /\ fields = <<>>
    /\ whens = <<>>
    /\ groups = <<>>
    /\ last = NoCall
    /\ whenArgs = <<>>
    /\ origin = <<>>
    /\ whenOrigin = <<>>
    /\ recorded = [v \in Validators |-> <<>>]
    /\ hist = <<>>
    /\ threads = [t \in Threads |-> Idle]
    /\ mutex = "free"
    /\ unsynced = FALSE
    /\ given = NilValue
    /\ verdict = NoVerdict
    /\ heap = NewHeap([v \in Validators |-> FALSE])
    /\ held = NoneHeld

\* The same, the objects behind the Validators being followed: a map for each
\* Validator made by New(), the nil map for one that was never initialised.
InitHeap ==
    /\ errors = [v \in Validators |-> EmptyStore]
    /\ isNil \in [Validators -> BOOLEAN]
    /\ fields = <<>>
    /\ whens = <<>>
    /\ groups = <<>>
    /\ last = NoCall
    /\ whenArgs = <<>>
    /\ origin = <<>>
    /\ whenOrigin = <<>>
    /\ recorded = [v \in Validators |-> <<>>]
    /\ hist = <<>>
    /\ threads = [t \in Threads |-> Idle]
    /\ mutex = "free"
    /\ unsynced = FALSE
    /\ given = NilValue
    /\ verdict = NoVerdict
    /\ heap = NewHeap(isNil)
    /\ held = NoneHeld

\* ------------------------------------------------------------- Validator
\* The store of v becomes s; the map is made if it was nil.
Store(v, s, made) ==
    /\ errors' = [errors EXCEPT ![v] = s]
    /\ isNil' = [isNil EXCEPT ![v] = IF made THEN FALSE ELSE @]

AddError(v, field, message) ==
    /\ Store(v, AddErrorStore(errors[v], field, message), TRUE)
    /\ recorded' = [recorded EXCEPT ![v] = Append(@, ValidationError(field, message))]
    /\ Called([NoCall EXCEPT !.op = "AddError", !.v = v, !.field = field,
                             !.message = message])
    /\ UNCHANGED ChainVars

AddStandaloneError(v, message) ==
    /\ Store(v, AddErrorStore(errors[v], StandaloneErrorKey, message), TRUE)
    /\ recorded' = [recorded EXCEPT
                      ![v] = Append(@, ValidationError(StandaloneErrorKey, message))]
    /\ Called([NoCall EXCEPT !.op = "AddStandaloneError", !.v = v, !.message = message])
    /\ UNCHANGED ChainVars

Check(v, valid, field, message) ==
    /\ Store(v, CheckStore(errors[v], valid, field, message), ~valid)
    /\ recorded' = [recorded EXCEPT
                      ![v] = IF valid THEN @
                             ELSE Append(@, ValidationError(field, message))]
    /\ Called([NoCall EXCEPT !.op = "Check", !.v = v, !.valid = valid, !.field = field,
                             !.message = message, !.ret = CheckReturn(valid)])
    /\ UNCHANGED ChainVars

CheckStandalone(v, valid, message) ==
    /\ Store(v, CheckStore(errors[v], valid, StandaloneErrorKey, message), ~valid)
    /\ recorded' = [recorded EXCEPT
                      ![v] = IF valid THEN @
                             ELSE Append(@, ValidationError(StandaloneErrorKey, message))]
    /\ Called([NoCall EXCEPT !.op = "CheckStandalone", !.v = v, !.valid = valid,
                             !.message = message, !.ret = CheckReturn(valid)])
    /\ UNCHANGED ChainVars

\* Validator.Merge.  The map of v is made if it was nil; then other.errors is
\* read: with other the nil pointer the read raises (a nil pointer dereference)
\* and the call ends there, the caller recovering from it.
Merge(v, other) ==
    /\ IF other = NilValidator
       THEN /\ Store(v, errors[v], TRUE)
            /\ recorded' = recorded
            /\ Called([NoCall EXCEPT !.op = "Merge", !.v = v, !.other = other,
                                     !.raised = TRUE])
       ELSE /\ Store(v, MergeStore(errors[v], errors[other]), TRUE)
            /\ recorded' = [recorded EXCEPT ![v] = @ \o recorded[other]]
            /\ Called([NoCall EXCEPT !.op = "Merge", !.v = v, !.other = other])
    /\ UNCHANGED ChainVars

\* Mutant of Clear: the conditional chains of v start anew, their running
\* conditions true again.
ClearResetting(v) ==
    /\ Store(v, ClearStore(errors[v]), TRUE)
    /\ recorded' = [recorded EXCEPT ![v] = <<>>]
    /\ Called([NoCall EXCEPT !.op = "Clear", !.v = v, !.idx = Size(errors[v])])
    /\ whens' = [i \in 1..Len(whens) |->
                    IF whens[i].v = v THEN [whens[i] EXCEPT !.condition = TRUE]
                    ELSE whens[i]]
    /\ UNCHANGED <<fields, groups, whenArgs, origin, whenOrigin>>

Clear(v) ==
    /\ Store(v, ClearStore(errors[v]), TRUE)
    /\ recorded' = [recorded EXCEPT ![v] = <<>>]
    /\ Called([NoCall EXCEPT !.op = "Clear", !.v = v, !.idx = Size(errors[v])])
    /\ UNCHANGED ChainVars

\* ------------------------------------------------------------- chains
Plain(name) == [grouped |-> FALSE, group |-> "", name |-> name]

Grouped(group, name) == [grouped |-> TRUE, group |-> group, name |-> name]

\* Validator.Field
Field(v, name, value, i) ==
    /\ i <= Len(fields) + 1
    /\ fields' = Put(fields, i, MkFieldValidation(name, value, v))
    /\ origin' = Put(origin, i, Plain(name))
    /\ Called([NoCall EXCEPT !.op = "Field", !.v = v, !.idx = i, !.field = name,
                             !.value = value])
    /\ UNCHANGED <<errors, isNil, whens, groups, whenArgs, whenOrigin, recorded>>

\* Validator.Group
Group(v, name, i) ==
    /\ i <= Len(groups) + 1
    /\ groups' = Put(groups, i, MkGroup(name, v))
    /\ Called([NoCall EXCEPT !.op = "Group", !.v = v, !.idx = i, !.field = name])
    /\ UNCHANGED <<errors, isNil, fields, whens, whenArgs, origin, whenOrigin, recorded>>

\* Group.Field on groups[g]: g.v.Field(fullName, value)
GroupField(g, name, value, i) ==
    /\ i <= Len(fields) + 1
    /\ fields' = Put(fields, i,
                     MkFieldValidation(FullName(groups[g].name, name), value, groups[g].v))
    /\ origin' = Put(origin, i, Grouped(groups[g].name, name))
    /\ Called([NoCall EXCEPT !.op = "Group.Field", !.v = groups[g].v, !.idx = i,
                             !.field = name, !.value = value])
    /\ UNCHANGED <<errors, isNil, whens, groups, whenArgs, whenOrigin, recorded>>

\* FieldValidation.Check on fields[f]
FieldCheck(f, valid, message) ==
    LET fv == fields[f]
    IN /\ Store(fv.v, CheckStore(errors[fv.v], valid, fv.field, message), ~valid)
       /\ recorded' = [recorded EXCEPT
                         ![fv.v] = IF valid THEN @
                                   ELSE Append(@, ValidationError(fv.field, message))]
       /\ Called([NoCall EXCEPT !.op = "FieldValidation.Check", !.v = fv.v, !.idx = f,
                                !.valid = valid, !.message = message])
       /\ UNCHANGED ChainVars

\* FieldValidation.When on fields[f]: a new When
FieldWhen(f, condition, i) ==
    /\ i <= Len(whens) + 1
    /\ whens' = Put(whens, i, MkWhen(condition, fields[f]))
    /\ whenArgs' = Put(whenArgs, i, <<condition>>)
    /\ whenOrigin' = Put(whenOrigin, i, origin[f])
    /\ Called([NoCall EXCEPT !.op = "FieldValidation.When", !.v = fields[f].v,
                             !.idx = i, !.cond = condition])
    /\ UNCHANGED <<errors, isNil, fields, groups, origin, recorded>>

\* When.Check on whens[w]
WhenCheck(w, valid, message) ==
    LET wh == whens[w]
        records == ~valid /\ AllTrue(whenArgs[w])
    IN /\ Store(wh.v, WhenCheckStore(wh, errors[wh.v], valid, message),
                wh.condition /\ ~valid)
       /\ recorded' = [recorded EXCEPT
                         ![wh.v] = IF records
                                   THEN Append(@, ValidationError(wh.field, message))
                                   ELSE @]
       /\ Called([NoCall EXCEPT !.op = "When.Check", !.v = wh.v, !.idx = w,
                                !.valid = valid, !.message = message])
       /\ UNCHANGED ChainVars

\* When.When on whens[w]: the same When, narrowed
WhenWhen(w, condition) ==
    /\ Len(whenArgs[w]) < MaxWhenCalls
    /\ whens' = [whens EXCEPT ![w].condition = Narrow(@, condition)]
    /\ whenArgs' = [whenArgs EXCEPT ![w] = Append(@, condition)]
    /\ Called([NoCall EXCEPT !.op = "When.When", !.v = whens[w].v, !.idx = w,
                             !.cond = condition])
    /\ UNCHANGED <<errors, isNil, fields, groups, origin, whenOrigin, recorded>>

\* ------------------------------------------------------------- the program
\* The calls on the Validators VS themselves, with messages MS.
StoreCalls(VS, MS) ==
    \/ \E v \in VS, f \in FieldNames, m \in MS : AddError(v, f, m)
    \/ \E v \in VS, m \in MS : AddStandaloneError(v, m)
    \/ \E v \in VS, b \in BOOLEAN, f \in FieldNames, m \in MS : Check(v, b, f, m)
    \/ \E v \in VS, b \in BOOLEAN, m \in MS : CheckStandalone(v, b, m)
    \/ \E v, other \in VS : Merge(v, other)
    \/ \E v \in VS : Clear(v)

\* The calls that make and use the chains of the Validators VS, with messages MS.
ChainCalls(VS, MS) ==
    \/ \E v \in VS, n \in FieldNames, x \in Values, i \in 1..MaxFieldChains :
          Field(v, n, x, i)
    \/ \E v \in VS, n \in GroupNames, i \in 1..MaxGroups : Group(v, n, i)
    \/ \E g \in 1..Len(groups), n \in FieldNames, x \in Values, i \in 1..MaxFieldChains :
          GroupField(g, n, x, i)
    \/ \E f \in 1..Len(fields), b \in BOOLEAN, m \in MS : FieldCheck(f, b, m)
    \/ \E f \in 1..Len(fields), c \in BOOLEAN, i \in 1..MaxWhens : FieldWhen(f, c, i)
    \/ \E w \in 1..Len(whens), b \in BOOLEAN, m \in MS : WhenCheck(w, b, m)
    \/ \E w \in 1..Len(whens), c \in BOOLEAN : WhenWhen(w, c)

\* The model follows the calls that leave v1 with at most n1 errors and v2
\* with at most n2.
Within(n1, n2) == Size(errors'["v1"]) <= n1 /\ Size(errors'["v2"]) <= n2

\* Every call, on two Validators; the chains are those of v1.
Next ==
    /\ StoreCalls(Validators, OneMessage) \/ ChainCalls(ChainValidators, OneMessage)
    /\ Within(MaxErrs, MaxErrs)
    /\ UNCHANGED <<RaceVars, PredVars, HeapVars>>

Spec == Init /\ [][Next]_vars

\* The Validator calls alone, on two Validators.
NextStore ==
    /\ StoreCalls(Validators, TwoMessages)
    /\ Within(MaxErrsLong, MaxErrs)
    /\ UNCHANGED <<RaceVars, PredVars, HeapVars>>

SpecStore == Init /\ [][NextStore]_vars

\* The chains of one Validator, with every message.
NextChain ==
    /\ ChainCalls(ChainValidators, Messages)
    /\ Within(MaxErrs, MaxErrs)
    /\ UNCHANGED <<RaceVars, PredVars, HeapVars>>

SpecChain == Init /\ [][NextChain]_vars

\* The chains of one Validator between direct checks on it.
NextOrder ==
    /\ \/ ChainCalls(ChainValidators, TwoMessages)
       \/ \E b \in BOOLEAN, f \in FieldNames, m \in TwoMessages : Check("v1", b, f, m)
    /\ Within(MaxErrsLong, MaxErrs)
    /\ UNCHANGED <<RaceVars, PredVars, HeapVars>>

SpecOrder == Init /\ [][NextOrder]_vars

\* The field calls a caller makes with the standalone key itself.
KeyedCalls(VS, MS) ==
    \/ \E v \in VS, m \in MS : AddError(v, StandaloneErrorKey, m)
    \/ \E v \in VS, b \in BOOLEAN, m \in MS : Check(v, b, StandaloneErrorKey, m)

\* The Validator calls, the field calls at the standalone key among them.
NextStandalone ==
    /\ StoreCalls(Validators, TwoMessages) \/ KeyedCalls(Validators, TwoMessages)
    /\ Within(MaxErrs, MaxErrs)
    /\ UNCHANGED <<RaceVars, PredVars, HeapVars>>

SpecStandalone == Init /\ [][NextStandalone]_vars

\* Merge called with the nil pointer.
NilCalls(VS) == \E v \in VS : Merge(v, NilValidator)

\* The Validator calls with every argument a caller can pass.
NextArgs ==
    /\ StoreCalls(Validators, OneMessage) \/ NilCalls(Validators)
    /\ Within(MaxErrs, MaxErrs)
    /\ UNCHANGED <<RaceVars, PredVars, HeapVars>>

SpecArgs == Init /\ [][NextArgs]_vars

\* The Validator calls with the empty message among the messages.
NextLiteral ==
    /\ StoreCalls(Validators, LiteralMessages)
    /\ Within(MaxErrs, MaxErrs)
    /\ UNCHANGED <<RaceVars, PredVars, HeapVars>>

SpecLiteral == Init /\ [][NextLiteral]_vars

\* The chains of one Validator whose names have dots in them.
DotCalls(VS, MS) ==
    \/ \E v \in VS, n \in DotPlainNames, x \in Values, i \in 1..MaxDotChains :
          Field(v, n, x, i)
    \/ \E v \in VS, n \in DotGroupNames, i \in 1..MaxGroups : Group(v, n, i)
    \/ \E g \in 1..Len(groups), n \in DotFieldNames, x \in Values, i \in 1..MaxDotChains :
          GroupField(g, n, x, i)
    \/ \E f \in 1..Len(fields), b \in BOOLEAN, m \in MS : FieldCheck(f, b, m)

NextDots ==
    /\ DotCalls(ChainValidators, TwoMessages)
    /\ Within(MaxErrsLong, MaxErrs)
    /\ UNCHANGED <<RaceVars, PredVars, HeapVars>>

SpecDots == Init /\ [][NextDots]_vars

\* One Field chain of a Validator and the conditional chains started from it.
WhenCalls(VS, MS) ==
    \/ \E v \in VS, n \in FieldNames, x \in Values, i \in 1..MaxFieldChains :
          Field(v, n, x, i)
    \/ \E f \in 1..Len(fields), b \in BOOLEAN, m \in MS : FieldCheck(f, b, m)
    \/ \E f \in 1..Len(fields), c \in BOOLEAN, i \in 1..MaxHeldWhens : FieldWhen(f, c, i)
    \/ \E w \in 1..Len(whens), b \in BOOLEAN, m \in MS : WhenCheck(w, b, m)
    \/ \E w \in 1..Len(whens), c \in BOOLEAN : WhenWhen(w, c)

NextWhens ==
    /\ WhenCalls(ChainValidators, TwoMessages)
    /\ Within(MaxErrs, MaxErrs)
    /\ UNCHANGED <<RaceVars, PredVars, HeapVars>>

SpecWhens == Init /\ [][NextWhens]_vars

\* The Validator calls together with what they do to the objects behind the
\* Validators, and the caller keeping the result of ValidationErrors() or of
\* Errors().
StoredAddError(v, field, message, spare) ==
    LET H == HeapAddError(heap, {HeldMap(held)}, v, field, message, spare)
    IN /\ AddError(v, field, message)
       /\ heap' = Collect(H, HeldMap(held))
       /\ held' = [held EXCEPT !.map = MapNumber(H, HeldMap(held), @)]

StoredCheck(v, valid, field, message, spare) ==
    LET H == IF valid THEN heap
             ELSE HeapAddError(heap, {HeldMap(held)}, v, field, message, spare)
    IN /\ Check(v, valid, field, message)
       /\ heap' = Collect(H, HeldMap(held))
       /\ held' = [held EXCEPT !.map = MapNumber(H, HeldMap(held), @)]

StoredMerge(v, other, spare) ==
    LET H == HeapMerge(heap, {HeldMap(held)}, v, other, spare)
    IN /\ Merge(v, other)
       /\ heap' = Collect(H, HeldMap(held))
       /\ held' = [held EXCEPT !.map = MapNumber(H, HeldMap(held), @)]

StoredClear(v) ==
    LET H == HeapClear(heap, {HeldMap(held)}, v)
    IN /\ Clear(v)
       /\ heap' = Collect(H, HeldMap(held))
       /\ held' = [held EXCEPT !.map = MapNumber(H, HeldMap(held), @)]

\* m := v.ValidationErrors(): return v.errors
TakeValidationErrors(v) ==
    /\ heap' = Collect(heap, heap.mapOf[v])
    /\ held' = Holding("ValidationErrors", v, MapNumber(heap, heap.mapOf[v], heap.mapOf[v]),
                       <<>>)
    /\ Called([NoCall EXCEPT !.op = "ValidationErrors", !.v = v])
    /\ UNCHANGED <<errors, isNil, recorded, ChainVars>>

\* m := v.Errors(): a map made by the call
TakeErrors(v) ==
    /\ heap' = Collect(heap, 0)
    /\ held' = Holding("Errors", v, 0, Errors(View(heap, heap.mapOf[v])))
    /\ Called([NoCall EXCEPT !.op = "Errors", !.v = v])
    /\ UNCHANGED <<errors, isNil, recorded, ChainVars>>

\* The Validator calls of the Validators VS on the objects.
StoredCalls(VS, MS) ==
    \/ \E v \in VS, f \in FieldNames, m \in MS, spare \in 0..MaxSpare :
          StoredAddError(v, f, m, spare)
    \/ \E v \in VS, b \in BOOLEAN, f \in FieldNames, m \in MS, spare \in 0..MaxSpare :
          StoredCheck(v, b, f, m, spare)
    \/ \E v, other \in VS, spare \in 0..MaxSpare : StoredMerge(v, other, spare)
    \/ \E v \in VS : StoredClear(v)

\* Two Validators and the objects behind them.
NextHeap ==
    /\ StoredCalls(Validators, TwoMessages)
    /\ Within(MaxErrs, MaxErrs)
    /\ UNCHANGED <<RaceVars, PredVars>>

SpecHeap == InitHeap /\ [][NextHeap]_vars

\* One Validator, the objects behind it, and a caller that keeps what
\* ValidationErrors() and Errors() returned.
NextHeld ==
    /\ \/ StoredCalls(HeldValidators, TwoMessages)
       \/ \E v \in HeldValidators : TakeValidationErrors(v)
       \/ \E v \in HeldValidators : TakeErrors(v)
    /\ Within(MaxErrs, MaxErrs)
    /\ UNCHANGED <<RaceVars, PredVars>>

SpecHeld == InitHeap /\ [][NextHeld]_vars

\* ------------------------------------------------------------- threads
\* Two threads call Check(false, field, message) on the Validator they share;
\* each call is the steps of AddError, and the steps of the two threads
\* interleave unless the caller holds its lock around the call.
SetThread(t, pc, slice) ==
    threads' = [threads EXCEPT ![t].pc = pc, ![t].slice = slice]

CallVars ==
    <<fields, whens, groups, whenArgs, origin, whenOrigin, last, hist, PredVars, HeapVars>>

\* Thread t enters Check(false, field, message), under the caller's lock or not.
Begin(t, field, message, locked) ==
    /\ threads[t].pc = "idle"
    /\ Len(recorded[SharedValidator]) < MaxRaceCalls
    /\ locked => mutex = "free"
    /\ threads' = [threads EXCEPT
                     ![t] = [pc |-> "test", field |-> field, message |-> message,
                             slice |-> <<>>]]
    /\ mutex' = IF locked THEN t ELSE mutex
    /\ unsynced' = (unsynced \/ ~locked)
    /\ recorded' = [recorded EXCEPT
                      ![SharedValidator] = Append(@, ValidationError(field, message))]
    /\ UNCHANGED <<errors, isNil, CallVars>>

\* if v.errors == nil
TestNil(t) ==
    /\ threads[t].pc = "test"
    /\ SetThread(t, IF isNil[SharedValidator] THEN "make" ELSE "read", <<>>)
    /\ UNCHANGED <<errors, isNil, recorded, mutex, unsynced, CallVars>>

\* v.errors = make(map[string][]ValidationError)
MakeMap(t) ==
    /\ threads[t].pc = "make"
    /\ Store(SharedValidator, EmptyStore, TRUE)
    /\ SetThread(t, "read", <<>>)
    /\ UNCHANGED <<recorded, mutex, unsynced, CallVars>>

\* The read of v.errors[field], the argument of append.
ReadSlice(t) ==
    /\ threads[t].pc = "read"
    /\ SetThread(t, "write", Lookup(errors[SharedValidator], threads[t].field))
    /\ UNCHANGED <<errors, isNil, recorded, mutex, unsynced, CallVars>>

\* v.errors[field] = append(...); the call returns and the caller's lock, if
\* the thread holds it, is released.
WriteSlice(t) ==
    /\ threads[t].pc = "write"
    /\ Store(SharedValidator,
             WriteBack(errors[SharedValidator], threads[t].field, threads[t].slice,
                       threads[t].message),
             FALSE)
    /\ SetThread(t, "idle", threads[t].slice)
    /\ mutex' = IF mutex = t THEN "free" ELSE mutex
    /\ UNCHANGED <<recorded, unsynced, CallVars>>

\* The map write of one thread meets a map access of another: the runtime may
\* end the program (fatal error: concurrent map writes).
Fault ==
    /\ \E t, u \in Threads :
          /\ t # u
          /\ threads[t].pc = "write"
          /\ threads[u].pc \in {"read", "write"}
    /\ threads' = [t \in Threads |-> [threads[t] EXCEPT !.pc = "dead"]]
    /\ UNCHANGED <<errors, isNil, recorded, mutex, unsynced, CallVars>>

NextRace ==
    \/ \E t \in Threads, f \in FieldNames, m \in TwoMessages, locked \in BOOLEAN :
          Begin(t, f, m, locked)
    \/ \E t \in Threads : TestNil(t)
    \/ \E t \in Threads : MakeMap(t)
    \/ \E t \in Threads : ReadSlice(t)
    \/ \E t \in Threads : WriteSlice(t)
    \/ Fault

SpecRace == Init /\ [][NextRace]_vars

\* ------------------------------------------------------------- the library
\* The values the predicates are applied to.
IntInputs == {GoValue(T, n) : T \in IntTypes, n \in -1..MaxInt}

Strings ==
    {<<>>,
     <<" ", " ">>,
     <<"a", "b">>,
     <<" ", "a", "b", " ">>,
     <<"a", "b", "c">>,
     <<"P", "a", "s", "s", "w", "0", "r", "d">>,
     <<"p", "a", "s", "s", "w", "o", "r", "d", "1">>,
     <<"P", "w", "0">>,
     <<"j", "o", "h", "n", "_", "d", "-", "1">>,
     <<"j", "o", "h", "n", " ", "d">>,
     <<"a", "@", "b", ".", "c", "o">>,
     <<"a", "@", "-", "b">>,
     <<"@", "b">>,
     <<"5", "5", "5", "-", "1", "2", "3", "-", "4", "5", "6", "7">>,
     <<"(", "5", "5", "5", ")", " ", "1", "2", "3", "-", "4", "5", "6", "7">>,
     <<"5", "5", "5", "-", "1", "2", "3", "4">>,
     [i \in 1..256 |-> "a"]}

StringInputs == {GoValue("string", s) : s \in Strings}

SliceInputs ==
    {GoValue("[]int", <<>>), GoValue("[]int", <<1, 2>>), GoValue("[]int", <<1, 1>>),
     GoValue("[]int", <<1, 3>>), GoValue("[]int64", <<1, 2>>),
     GoValue("[]string", <<<<"a", "b">>, <<"a", "b", "c">>>>),
     GoValue("[]string", <<<<"a", "b">>, <<"a", "b">>>>)}

TimeInputs ==
    {GoValue("time.Time", Time(n, loc)) : n \in 0..MaxUnix, loc \in {"UTC", "Local"}}

OtherInputs ==
    {NilValue, GoValue("float64", 1), GoValue("bool", TRUE),
     GoValue("*time.Time", Time(1, "UTC"))}

Inputs == IntInputs \cup StringInputs \cup SliceInputs \cup TimeInputs \cup OtherInputs

\* The arguments the predicates are built with.
ParamInts == 0..MaxParam

ParamTimes == {Time(n, "UTC") : n \in 0..MaxUnix}

IntLists == {<<>>, <<1, 2>>}

StringLists == {<<<<"a", "b">>, <<"a", "b", "c">>>>}

Lengths == {0, 3, 8, 255}

\* Equal[T](other): T the type of other, or any.
EqualArgs ==
    {<<T, GoValue(T, n)>> : T \in IntTypes, n \in ParamInts}
        \cup {<<"string", GoValue("string", <<"a", "b">>)>>,
              <<"any", GoValue("int", 1)>>,
              <<"any", GoValue("[]int", <<1, 2>>)>>}

Untouched == <<errors, isNil, recorded, fields, whens, groups, whenArgs, origin,
               whenOrigin, last, hist, RaceVars, HeapVars>>

\* The caller takes another value.
Give(value) ==
    /\ given' = value
    /\ verdict' = NoVerdict
    /\ UNCHANGED Untouched

\* The predicate p was applied to the value given: what it returned, or that
\* it raised.
Applied(p, result, raised) ==
    /\ verdict' = [pred |-> p, result |-> result, raised |-> raised]
    /\ UNCHANGED <<given, Untouched>>

CallBetween(T, min, max) ==
    Applied(Pred("Between", T, min, max), Between(T, min, max, given), FALSE)

CallEqual(T, other) ==
    Applied(Pred("Equal", T, other, 0),
            ~EqualRaises(T, other, given) /\ Equal(T, other, given),
            EqualRaises(T, other, given))

CallIn(T, allowed) == Applied(Pred("In", T, allowed, 0), In(T, allowed, given), FALSE)

CallAllIn(T, allowed) ==
    Applied(Pred("AllIn", T, allowed, 0), AllIn(T, allowed, given), FALSE)

CallNoDuplicates(T) ==
    Applied(Pred("NoDuplicates", T, 0, 0), NoDuplicates(T, given), FALSE)

CallMinLength(min) ==
    Applied(Pred("MinLength", "string", min, 0), MinLength(min, given), FALSE)

CallMaxLength(max) ==
    Applied(Pred("MaxLength", "string", max, 0), MaxLength(max, given), FALSE)

CallMin(T, min) == Applied(Pred("Min", T, min, 0), Min(T, min, given), FALSE)

CallMax(T, max) == Applied(Pred("Max", T, max, 0), Max(T, max, given), FALSE)

CallGreaterThan(T, n) ==
    Applied(Pred("GreaterThan", T, n, 0), GreaterThan(T, n, given), FALSE)

CallLessThan(T, n) ==
    Applied(Pred("LessThan", T, n, 0), LessThan(T, n, given), FALSE)

CallGreaterOrEqual(T, n) ==
    Applied(Pred("GreaterOrEqual", T, n, 0), GreaterOrEqual(T, n, given), FALSE)

CallLessOrEqual(T, n) ==
    Applied(Pred("LessOrEqual", T, n, 0), LessOrEqual(T, n, given), FALSE)

CallBefore(t) == Applied(Pred("Before", "time.Time", t, 0), Before(t, given), FALSE)

CallAfter(t) == Applied(Pred("After", "time.Time", t, 0), After(t, given), FALSE)

CallBetweenTime(start, end) ==
    Applied(Pred("BetweenTime", "time.Time", start, end),
            BetweenTime(start, end, given), FALSE)

CallMatch(pattern) ==
    Applied(Pred("Match", "string", pattern, 0), Match(pattern, given), FALSE)

CallEmail == Applied(Pred("Email", "string", 0, 0), Email(given), FALSE)

CallPhone == Applied(Pred("Phone", "string", 0, 0), Phone(given), FALSE)

CallPassword == Applied(Pred("Password", "string", 0, 0), Password(given), FALSE)

CallUsername == Applied(Pred("Username", "string", 0, 0), Username(given), FALSE)

\* A Validator made by New(), and any value to apply the predicates to.
InitLibrary ==
    /\ errors = [v \in Validators |-> EmptyStore]
    /\ isNil = [v \in Validators |-> FALSE]
    /\ fields = <<>>
    /\ whens = <<>>
    /\ groups = <<>>
    /\ last = NoCall
    /\ whenArgs = <<>>
    /\ origin = <<>>
    /\ whenOrigin = <<>>
    /\ recorded = [v \in Validators |-> <<>>]
    /\ hist = <<>>
    /\ threads = [t \in Threads |-> Idle]
    /\ mutex = "free"
    /\ unsynced = FALSE
    /\ given \in Inputs
    /\ verdict = NoVerdict
    /\ heap = NewHeap([v \in Validators |-> FALSE])
    /\ held = NoneHeld

NextLibrary ==
    \/ \E value \in Inputs : Give(value)
    \/ \E T \in IntTypes, min, max \in ParamInts : CallBetween(T, min, max)
    \/ \E args \in EqualArgs : CallEqual(args[1], args[2])
    \/ \E T \in IntTypes, allowed \in IntLists : CallIn(T, allowed)
    \/ \E allowed \in StringLists : CallIn("string", allowed)
    \/ \E T \in IntTypes, allowed \in IntLists : CallAllIn(T, allowed)
    \/ \E allowed \in StringLists : CallAllIn("string", allowed)
    \/ \E T \in IntTypes \cup {"string"} : CallNoDuplicates(T)
    \/ \E min \in Lengths : CallMinLength(min)
    \/ \E max \in Lengths : CallMaxLength(max)
    \/ \E T \in IntTypes, min \in ParamInts : CallMin(T, min)
    \/ \E T \in IntTypes, max \in ParamInts : CallMax(T, max)
    \/ \E T \in IntTypes, n \in ParamInts : CallGreaterThan(T, n)
    \/ \E T \in IntTypes, n \in ParamInts : CallLessThan(T, n)
    \/ \E T \in IntTypes, n \in ParamInts : CallGreaterOrEqual(T, n)
    \/ \E T \in IntTypes, n \in ParamInts : CallLessOrEqual(T, n)
    \/ \E t \in ParamTimes : CallBefore(t)
    \/ \E t \in ParamTimes : CallAfter(t)
    \/ \E start, end \in ParamTimes : CallBetweenTime(start, end)
    \/ \E pattern \in Patterns : CallMatch(pattern)
    \/ CallEmail
    \/ CallPhone
    \/ CallPassword
    \/ CallUsername

SpecLibrary == InitLibrary /\ [][NextLibrary]_vars

\* ------------------------------------------------------------- properties
\* The key a chain made by Field(name) or Group(group).Field(name) is to record under.
OriginKey(o) == IF o.grouped THEN o.group \o "." \o o.name ELSE o.name

\* The step records message under key of Validator v and changes nothing else
\* of any Error Store.
Records(v, key, message) ==
    /\ DOMAIN errors'[v] = DOMAIN errors[v] \cup {key}
    /\ errors'[v][key] = Append(Lookup(errors[v], key), ValidationError(key, message))
    /\ \A k \in DOMAIN errors[v] \ {key} : errors'[v][k] = errors[v][k]
    /\ \A u \in Validators \ {v} : errors'[u] = errors[u]

\* Every recorded error of the step's start is still there, in place, at its end.
Kept ==
    \A v \in Validators : \A k \in DOMAIN errors[v] :
        /\ k \in DOMAIN errors'[v]
        /\ IsPrefix(errors[v][k], errors'[v][k])

C3_PlainChecksStay ==
    /\ [][(last'.op = "FieldValidation.Check") =>
            IF ~last'.valid
            THEN Records(fields[last'.idx].v, OriginKey(origin[last'.idx]), last'.message)
            ELSE errors' = errors]_vars
    /\ [][(last'.op \in {"FieldValidation.When", "When.When", "When.Check"}) => Kept]_vars
    /\ [](hist = ScenarioPlainFirst => ErrorFor(errors["v1"], "name") = "a")

\* C3 witness: the scenario was run to its end and the first message is the
\* only one recorded.
C3_Witness ==
    /\ hist = ScenarioPlainFirst
    /\ whens[1].condition = FALSE
    /\ MessagesOf(Lookup(errors["v1"], "name")) = <<"a">>

MessagesFor(log, field) ==
    MessagesOf(SelectSeq(log, LAMBDA e : e.Field = field))

\* The keys in use: those of the store of v and those of its recorded errors.
KeysOf(v) == DOMAIN errors[v] \cup {recorded[v][i].Field : i \in 1..Len(recorded[v])}

\* C5: after any sequence of direct checks, Field chain checks and conditional
\* chain checks on one Validator, each field's stored messages are the recorded
\* messages of that field in call order, and ErrorFor(field) is those messages
\* joined by ", " in that order.
C5_InsertionOrder ==
    \A v \in Validators : \A f \in KeysOf(v) \cup FieldNames :
        /\ MessagesOf(Lookup(errors[v], f)) = MessagesFor(recorded[v], f)
        /\ ErrorFor(errors[v], f) = Join(MessagesFor(recorded[v], f), ", ")

\* C5 witness: two messages of one field with one of another field recorded
\* between them, the last by a conditional chain.
C5_Witness ==
    /\ last.op = "When.Check"
    /\ Len(recorded["v1"]) = 3
    /\ recorded["v1"][1] = ValidationError("name", "b")
    /\ recorded["v1"][2].Field = "user.name"
    /\ recorded["v1"][3] = ValidationError("name", "a")
    /\ ErrorFor(errors["v1"], "name") = "b, a"

\* C6: Validator.Check returns exactly valid; a passing check leaves the Error
\* Store unchanged, a failing one appends exactly one ValidationError{field,
\* message} to the sequence of field and changes no other sequence.
C6_CheckFrame ==
    [][last'.op = "Check" =>
        /\ last'.ret = last'.valid
        /\ IF last'.valid THEN errors' = errors
           ELSE Records(last'.v, last'.field, last'.message)]_vars

\* C6 witness: a failing check returned false on a field that had an error,
\* beside another field with errors.
C6_Witness ==
    /\ last.op = "Check"
    /\ ~last.valid
    /\ ~last.ret
    /\ Len(Lookup(errors[last.v], last.field)) = 2
    /\ HasStandaloneErrors(errors[last.v])

\* C7: v1.Merge(v2), v1 and v2 distinct: every field's sequence of v1 is its
\* sequence before followed by that of v2 in v2's order, HasErrorFor(f) holds in
\* v1 for every f with errors in either, and the store of v2 is as before.
C7_Merge ==
    [][(last'.op = "Merge" /\ last'.v # last'.other) =>
        LET v == last'.v
            o == last'.other
        IN /\ errors'[o] = errors[o]
           /\ DOMAIN errors'[v] = DOMAIN errors[v] \cup DOMAIN errors[o]
           /\ \A f \in DOMAIN errors'[v] :
                 /\ errors'[v][f] = Lookup(errors[v], f) \o Lookup(errors[o], f)
                 /\ (HasErrorFor(errors[v], f) \/ HasErrorFor(errors[o], f))
                       => HasErrorFor(errors'[v], f)]_vars

\* C7 witness: v2, holding two errors of one field, was merged into v1, which
\* held one error of that field.
C7_Witness ==
    /\ last.op = "Merge"
    /\ last.v = "v1"
    /\ last.other = "v2"
    /\ MessagesOf(Lookup(errors["v2"], "name")) = <<"b", "a">>
    /\ MessagesOf(Lookup(errors["v1"], "name")) = <<"a", "b", "a">>

\* The answers of every query of a Validator whose store is the given one.
Answers(store) ==
    [hasErrors |-> HasErrors(store),
     errors |-> Errors(store),
     error |-> ErrorStrings(store),
     validationErrors |-> ValidationErrors(store),
     standaloneErrors |-> StandaloneErrors(store),
     hasStandaloneErrors |-> HasStandaloneErrors(store),
     errorFor |-> [f \in FieldNames \cup {StandaloneErrorKey} \cup DOMAIN store
                     |-> ErrorFor(store, f)],
     hasErrorFor |-> [f \in FieldNames \cup {StandaloneErrorKey} \cup DOMAIN store
                        |-> HasErrorFor(store, f)]]

\* C8: from any state Clear() leads to a state where HasErrors() is false,
\* Errors() is the empty map, Error() is the empty string and every query
\* answers as on a Validator just made by New(); a second Clear() changes nothing.
C8_Clear ==
    /\ [][last'.op = "Clear" =>
            LET after == errors'[last'.v]
            IN /\ ~HasErrors(after)
               /\ Errors(after) = [k \in {} |-> ""]
               /\ ErrorStrings(after) = {""}
               /\ \A f \in FieldNames \cup {StandaloneErrorKey} \cup DOMAIN errors[last'.v] :
                     ~HasErrorFor(after, f) /\ ErrorFor(after, f) = ""
               /\ Answers(after) = Answers(EmptyStore)
               /\ ~isNil'[last'.v]]_vars
    /\ [][(last.op = "Clear" /\ last'.op = "Clear" /\ last'.v = last.v)
            => (errors' = errors /\ isNil' = isNil)]_vars

\* C8 witness: a Clear removed three errors and the Validator has none.
C8_Witness ==
    /\ last.op = "Clear"
    /\ last.idx = 3
    /\ ~HasErrors(errors[last.v])

\* C9: in every state reached from New() by AddError, AddStandaloneError,
\* Check, CheckStandalone, the chain checks, Merge and Clear, no key of the
\* Error Store maps to an empty sequence, so HasErrors() is true if and only if
\* HasErrorFor(f) is true for some key f.
C9_NoEmptySequence ==
    \A v \in Validators :
        /\ \A k \in DOMAIN errors[v] : Len(errors[v][k]) > 0
        /\ HasErrors(errors[v]) <=> \E f \in DOMAIN errors[v] : HasErrorFor(errors[v], f)

\* C9 witness: after a passing conditional check, v1 holds errors of two keys
\* and v2 holds errors too.
C9_Witness ==
    /\ last.op = "When.Check"
    /\ last.valid
    /\ Cardinality(DOMAIN errors["v1"]) = 2
    /\ HasErrors(errors["v2"])
    /\ \A k \in DOMAIN errors["v1"] : HasErrorFor(errors["v1"], k)

\* C10: every error recorded through Group(g).Field(n, value), by a plain or a
\* conditional check, is stored under the key g + "." + n and under no other
\* key; Group("user").Field("name", "").Check(false, m) on a fresh Validator
\* gives HasErrorFor("user.name") and not HasErrorFor("name").
C10_GroupKey ==
    /\ [][(last'.op = "FieldValidation.Check" /\ origin[last'.idx].grouped) =>
            LET o == origin[last'.idx]
            IN IF ~last'.valid
               THEN Records(last'.v, o.group \o "." \o o.name, last'.message)
               ELSE errors' = errors]_vars
    /\ [][(last'.op = "When.Check" /\ whenOrigin[last'.idx].grouped) =>
            LET o == whenOrigin[last'.idx]
            IN \/ errors' = errors
               \/ Records(last'.v, o.group \o "." \o o.name, last'.message)]_vars
    /\ [](hist = ScenarioGroup =>
            /\ HasErrorFor(errors["v1"], "user.name")
            /\ ~HasErrorFor(errors["v1"], "name"))

\* C10 witness: the scenario was run to its end; the error is under "user.name".
C10_Witness ==
    /\ hist = ScenarioGroup
    /\ DOMAIN errors["v1"] = {"user.name"}
    /\ origin[1] = Grouped("user", "name")


AskedFields(store) ==
    DOMAIN store \cup FieldNames \cup {StandaloneErrorKey, "user.name", "other"}

\* C12: in every reachable state the keys of Errors(), the keys of
\* ValidationErrors() and the fields with HasErrorFor true are the same set;
\* for each of them Errors()[f] = ErrorFor(f) = the messages of
\* ValidationErrors()[f] joined by ", " in insertion order; for every other
\* field ErrorFor is the empty string.
C12_ViewsAgree ==
    \A v \in Validators :
        LET store == errors[v]
            keys == DOMAIN Errors(store)
        IN /\ keys = DOMAIN ValidationErrors(store)
           /\ keys = {f \in AskedFields(store) : HasErrorFor(store, f)}
           /\ \A f \in keys :
                 /\ Errors(store)[f] = ErrorFor(store, f)
                 /\ ErrorFor(store, f) =
                       Join([i \in 1..Len(ValidationErrors(store)[f]) |->
                                ValidationErrors(store)[f][i].Message], ", ")
                 /\ \A i \in 1..Len(ValidationErrors(store)[f]) :
                       ValidationErrors(store)[f][i].Message
                          = MessagesFor(recorded[v], f)[i]
           /\ \A f \in AskedFields(store) \ keys : ErrorFor(store, f) = ""

\* C12 witness: v1 holds two messages under one key and one under another, the
\* views agree on both keys, and a field without errors answers "".
C12_Witness ==
    /\ DOMAIN Errors(errors["v1"]) = {"name", StandaloneErrorKey}
    /\ Errors(errors["v1"])["name"] = "b, a"
    /\ ErrorFor(errors["v1"], "name") = "b, a"
    /\ Len(ValidationErrors(errors["v1"])["name"]) = 2
    /\ ErrorFor(errors["v1"], "other") = ""
    /\ ~HasErrorFor(errors["v1"], "other")


\* The segment of Error() for a key: its name, "global" for the standalone
\* key, and the messages recorded for it on v, in call order.
Segment(v, key) ==
    (IF key = StandaloneErrorKey THEN "global" ELSE key)
        \o ": [" \o Join(MessagesFor(recorded[v], key), ", ") \o "]"

\* The ways to list the keys of v that have errors, each once, the standalone
\* key first if it is among them.
SegmentOrders(v) ==
    LET keys == {k \in DOMAIN errors[v] : Len(errors[v][k]) > 0}
        n == Cardinality(keys)
    IN {o \in [1..n -> keys] :
           /\ \A i, j \in 1..n : i # j => o[i] # o[j]
           /\ \A i \in 1..n : o[i] = StandaloneErrorKey => i = 1}

AfterAddError(v, field, message) ==
    /\ errors' = [errors EXCEPT ![v] = AddErrorStore(@, field, message)]
    /\ isNil' = [isNil EXCEPT ![v] = FALSE]

\* The state a call of Check(valid, field, message) on v leads to.
AfterCheck(v, valid, field, message) ==
    /\ errors' = [errors EXCEPT ![v] = CheckStore(@, valid, field, message)]
    /\ isNil' = [isNil EXCEPT ![v] = IF valid THEN @ ELSE FALSE]

\* C14: the standalone calls are the field calls at the key "__standalone__":
\* AddStandaloneError(m) and AddError("__standalone__", m) lead from the same
\* state to the same state, as do CheckStandalone(valid, m) and
\* Check(valid, "__standalone__", m), which return the same value;
\* StandaloneErrors() is that key's messages in insertion order, none if the
\* key is missing, and HasStandaloneErrors() = HasErrorFor("__standalone__").
C14_StandaloneIsField ==
    /\ [][(\/ last'.op = "AddStandaloneError"
           \/ last'.op = "AddError" /\ last'.field = "__standalone__")
            => AfterAddError(last'.v, "__standalone__", last'.message)]_vars
    /\ [][(\/ last'.op = "CheckStandalone"
           \/ last'.op = "Check" /\ last'.field = "__standalone__")
            => /\ AfterCheck(last'.v, last'.valid, "__standalone__", last'.message)
               /\ last'.ret = last'.valid]_vars
    /\ [](\A v \in Validators :
            /\ StandaloneErrors(errors[v])
                  = MessagesFor(recorded[v], "__standalone__")
            /\ StandaloneErrors(errors[v])
                  = MessagesOf(Lookup(errors[v], "__standalone__"))
            /\ HasStandaloneErrors(errors[v])
                  = HasErrorFor(errors[v], "__standalone__"))

\* C14 witness: two standalone errors, the second added by a failing Check at
\* the standalone key itself.
C14_Witness ==
    /\ last.op = "Check"
    /\ last.field = "__standalone__"
    /\ ~last.valid
    /\ recorded[last.v] = <<ValidationError("__standalone__", "a"),
                            ValidationError("__standalone__", "b")>>
    /\ StandaloneErrors(errors[last.v]) = <<"a", "b">>
    /\ HasStandaloneErrors(errors[last.v])


\* C15: the checks of a plain Field chain are independent: a Check records
\* when valid is false and only then, whether the check before it on the chain
\* failed or passed; so Field(f, v).Check(b1, "a").Check(b2, "b").Check(b3, "c")
\* on a fresh Validator leaves for f exactly the messages of the false b, in
\* call order.
C15_NoShortCircuit ==
    /\ [][(/\ last.op = "FieldValidation.Check"
           /\ last'.op = "FieldValidation.Check"
           /\ last'.idx = last.idx)
            => IF last'.valid THEN errors' = errors
               ELSE errors'[last'.v][fields[last'.idx].field]
                       = Append(Lookup(errors[last'.v], fields[last'.idx].field),
                                ValidationError(fields[last'.idx].field, last'.message))]_vars
    /\ [](/\ hist = ScenarioFailFailPass
             => MessagesOf(Lookup(errors["v1"], "name")) = <<"a", "b">>
          /\ hist = ScenarioFailPassFail
             => MessagesOf(Lookup(errors["v1"], "name")) = <<"a", "c">>
          /\ hist = ScenarioPassFailFail
             => MessagesOf(Lookup(errors["v1"], "name")) = <<"b", "c">>)

\* C15 witness: after a failing, a passing and a failing check on one chain
\* the first and the third message are recorded, in that order.
C15_Witness ==
    /\ hist = ScenarioFailPassFail
    /\ last.op = "FieldValidation.Check"
    /\ MessagesOf(Lookup(errors["v1"], "name")) = <<"a", "c">>


\* C16: no operation of the Validator raises, for every argument and in every
\* state, a Validator whose map was never made and every Validator passed to
\* Merge included: no call ends by raising.
C16_NeverRaises == ~last.raised


\* No thread is inside a call.
AllIdle == \A t \in Threads : threads[t].pc = "idle"

\* C17: AddError is a read, an append and a write with no lock of its own.
\* When every call on the shared Validator was made under the caller's lock,
\* the program is not ended by the runtime and, once the calls have returned,
\* every failing check is recorded, in call order.  (That two calls made
\* without the lock can lose a message is the state of C17_Witness.)
C17_SerialisedRecords ==
    ~unsynced =>
        /\ \A t \in Threads : threads[t].pc # "dead"
        /\ AllIdle =>
              \A f \in FieldNames :
                  MessagesOf(Lookup(errors[SharedValidator], f))
                     = MessagesFor(recorded[SharedValidator], f)

\* C17 witness: after one recorded check, two threads made a failing check
\* each without the lock, both read the field's one error before either wrote,
\* both calls returned, and the store holds two messages of the three.
C17_Witness ==
    /\ unsynced
    /\ AllIdle
    /\ Len(recorded[SharedValidator]) = 3
    /\ \A t \in Threads : Len(threads[t].slice) = 1
    /\ Len(Lookup(errors[SharedValidator], "name")) = 2


\* The dynamic type a predicate asserts of its input.
ExpectedType(p) ==
    IF p.name \in {"AllIn", "NoDuplicates"} THEN "[]" \o p.T ELSE p.T

\* C18: every typed predicate (Between, Equal, In, AllIn, NoDuplicates,
\* MinLength, MaxLength, Min, Max, GreaterThan, LessThan, GreaterOrEqual,
\* LessOrEqual, Before, After, BetweenTime, Match, Email, Phone, Password,
\* Username) returns false and does not raise when the dynamic type of the
\* value it is applied to is not the type it was built for (for a predicate
\* built for any: when the value is the nil interface).
C18_MismatchIsFalse ==
    (/\ verdict.pred.name # "none"
     /\ given.type # ExpectedType(verdict.pred)
     /\ verdict.pred.T = "any" => given.type = "nil")
        => (verdict.result = FALSE /\ ~verdict.raised)

\* C18 witness: Between built for int, applied to an int64 inside its bounds,
\* returned false.
C18_Witness ==
    /\ verdict.pred.name = "Between"
    /\ verdict.pred.T = "int"
    /\ verdict.pred.a = 0
    /\ verdict.pred.b = 2
    /\ given.type = "int64"
    /\ given.val = 1
    /\ verdict.result = FALSE
    /\ ~verdict.raised

\* C19: for integers min, max, v of one type Between(min, max)(v) is true
\* exactly when min <= v <= max, and on every input it is Min(min)(v) and
\* Max(max)(v); Min and GreaterOrEqual agree on every input, so do Max and
\* LessOrEqual; for integers of one type GreaterThan(n)(v) is the negation of
\* LessOrEqual(n)(v) and LessThan(n)(v) that of GreaterOrEqual(n)(v).
C19_NumericBounds ==
    LET p == verdict.pred
        sameInt == p.T \in IntTypes /\ given.type = p.T
    IN /\ p.name = "Between" =>
             /\ verdict.result = (Min(p.T, p.a, given) /\ Max(p.T, p.b, given))
             /\ sameInt => verdict.result = (p.a <= given.val /\ given.val <= p.b)
       /\ p.name = "Min" => verdict.result = GreaterOrEqual(p.T, p.a, given)
       /\ p.name = "GreaterOrEqual" => verdict.result = Min(p.T, p.a, given)
       /\ p.name = "Max" => verdict.result = LessOrEqual(p.T, p.a, given)
       /\ p.name = "LessOrEqual" => verdict.result = Max(p.T, p.a, given)
       /\ (p.name = "GreaterThan" /\ sameInt)
             => verdict.result = (~LessOrEqual(p.T, p.a, given))
       /\ (p.name = "LessOrEqual" /\ sameInt)
             => verdict.result = (~GreaterThan(p.T, p.a, given))
       /\ (p.name = "LessThan" /\ sameInt)
             => verdict.result = (~GreaterOrEqual(p.T, p.a, given))
       /\ (p.name = "GreaterOrEqual" /\ sameInt)
             => verdict.result = (~LessThan(p.T, p.a, given))

\* C19 witness: Between(0, 2) built for int accepted the int 2, its upper bound.
C19_Witness ==
    /\ verdict.pred.name = "Between"
    /\ verdict.pred.T = "int"
    /\ verdict.pred.a = 0
    /\ verdict.pred.b = 2
    /\ given.type = "int"
    /\ given.val = 2
    /\ verdict.result = TRUE
    /\ Max("int", 2, given)
    /\ GreaterThan("int", 1, given)
    /\ ~LessOrEqual("int", 1, given)

\* C20: the time predicates are strict: applied to a time v, Before(t) is true
\* exactly when v < t, After(t) exactly when v > t, BetweenTime(start, end)
\* exactly when start < v < end; a time at the instant of t, start or end is
\* rejected.
C20_TimeStrict ==
    LET p == verdict.pred
    IN (p.name \in {"Before", "After", "BetweenTime"} /\ given.type = "time.Time") =>
          LET v == given.val.unix
          IN /\ p.name = "Before" => verdict.result = (v < p.a.unix)
             /\ p.name = "After" => verdict.result = (v > p.a.unix)
             /\ p.name = "BetweenTime" =>
                   verdict.result = (p.a.unix < v /\ v < p.b.unix)
             /\ v = p.a.unix => ~verdict.result
             /\ (p.name = "BetweenTime" /\ v = p.b.unix) => ~verdict.result

\* C20 witness: BetweenTime(1, 3) rejected the time at instant 3, its end, given
\* in another location; the numeric Between(1, 3) accepts 3.
C20_Witness ==
    /\ verdict.pred.name = "BetweenTime"
    /\ verdict.pred.a = Time(1, "UTC")
    /\ verdict.pred.b = Time(3, "UTC")
    /\ given.type = "time.Time"
    /\ given.val = Time(3, "Local")
    /\ verdict.result = FALSE
    /\ Between("int", 1, 3, GoValue("int", 3))
    /\ BetweenTime(Time(1, "UTC"), Time(3, "UTC"), GoValue("time.Time", Time(2, "UTC")))

\* C21: an empty message is recorded like any other: Check(false, f, "") and
\* AddError(f, "") append one ValidationError{f, ""} to the sequence of f; on a
\* Validator without errors HasErrorFor(f) and HasErrors() are true afterwards,
\* the sequence of f is that one error, and ErrorFor(f) is the empty string.
C21_EmptyMessageRecorded ==
    [][((last'.op = "AddError" \/ (last'.op = "Check" /\ ~last'.valid))
            /\ last'.message = "") =>
        LET v == last'.v
            f == last'.field
        IN /\ Records(v, f, "")
           /\ HasErrorFor(errors'[v], f)
           /\ HasErrors(errors'[v])
           /\ errors[v] = EmptyStore =>
                 /\ errors'[v][f] = <<ValidationError(f, "")>>
                 /\ ErrorFor(errors'[v], f) = ""]_vars

\* C21 witness: Check(false, f, "") was called on a Validator without errors;
\* it has an error of f now, and ErrorFor(f) is the empty string.
C21_Witness ==
    /\ last.op = "Check"
    /\ ~last.valid
    /\ last.message = ""
    /\ errors[last.v] = [k \in {last.field} |-> <<ValidationError(last.field, "")>>]
    /\ HasErrorFor(errors[last.v], last.field)
    /\ ErrorFor(errors[last.v], last.field) = ""

\* C22: group keys are not escaped: a failing check of a chain records under
\* the concatenation group + "." + name (under name for a chain outside any
\* group) and under no other key, so chains whose concatenations are equal
\* share one key; Field("a.b.c", x), Group("a").Field("b.c", x) and
\* Group("a.b").Field("c", x) all record into the sequence of "a.b.c", their
\* messages in call order.
C22_NoEscaping ==
    /\ [][(last'.op = "FieldValidation.Check" /\ ~last'.valid) =>
            Records(last'.v, OriginKey(origin[last'.idx]), last'.message)]_vars
    /\ [](\A i, j \in 1..Len(fields) :
            OriginKey(origin[i]) = OriginKey(origin[j]) => fields[i].field = fields[j].field)
    /\ [](\A o \in {Plain("a.b.c"), Grouped("a", "b.c"), Grouped("a.b", "c")} :
            \A i \in 1..Len(fields) : origin[i] = o => fields[i].field = "a.b.c")
    /\ [](hist = ScenarioDots =>
            /\ DOMAIN errors["v1"] = {"a.b.c"}
            /\ MessagesOf(errors["v1"]["a.b.c"]) = <<"a", "b", "a">>)

\* C22 witness: the three chains each made a failing check; the caller holds
\* the chain of Field("a.b.c") and that of Group("a.b").Field("c"), and the
\* one sequence of "a.b.c" has the three errors.
C22_Witness ==
    /\ hist = ScenarioDots
    /\ origin = <<Plain("a.b.c"), Grouped("a.b", "c")>>
    /\ fields[1].field = fields[2].field
    /\ Len(Lookup(errors["v1"], "a.b.c")) = 3

\* The conditional chains other than whens[w] are, after the step, as before it.
OthersAsBefore(w) ==
    \A u \in 1..Len(whens) : u # w => (whens'[u] = whens[u] /\ whenArgs'[u] = whenArgs[u])

\* C23: each FieldValidation.When makes a conditional chain whose running
\* condition is the argument given, whatever the conditions of the chains made
\* before from the same Field chain; a When on a conditional chain narrows that
\* one chain in place and no other, so whoever holds it sees the narrowed
\* condition; no When changes the Field chain, whose failing checks are still
\* recorded; a failing Check on a conditional chain records if and only if the
\* running condition of that chain is true.
C23_IndependentConditions ==
    /\ [][last'.op = "FieldValidation.When" =>
            /\ whens'[last'.idx].condition = last'.cond
            /\ OthersAsBefore(last'.idx)
            /\ fields' = fields]_vars
    /\ [][last'.op = "When.When" =>
            /\ whens'[last'.idx] =
                  [whens[last'.idx] EXCEPT !.condition = (@ /\ last'.cond)]
            /\ Len(whens') = Len(whens)
            /\ OthersAsBefore(last'.idx)
            /\ fields' = fields]_vars
    /\ [][(last'.op = "When.Check" /\ ~last'.valid) =>
            IF whens[last'.idx].condition
            THEN Records(last'.v, whens[last'.idx].field, last'.message)
            ELSE errors' = errors]_vars
    /\ [][(last'.op = "FieldValidation.Check" /\ ~last'.valid) =>
            Records(last'.v, fields[last'.idx].field, last'.message)]_vars
    /\ [](hist = ScenarioTwoWhens => ErrorFor(errors["v1"], "name") = "b, a")

\* C23 witness: of two conditional chains started from one Field chain the
\* first was narrowed with When(false) and skipped its check; the second and
\* the Field chain recorded theirs.
C23_Witness ==
    /\ hist = ScenarioTwoWhens
    /\ whenArgs = <<(<<TRUE, FALSE>>), (<<TRUE>>)>>
    /\ ~whens[1].condition
    /\ whens[2].condition
    /\ MessagesOf(Lookup(errors["v1"], "name")) = <<"b", "a">>

\* C24: chains are bound to the Validator, not to a snapshot of its store:
\* Clear and Merge leave every Field chain, Group and conditional chain as it
\* was, the running conditions included; a Group made before still makes
\* chains of its own Validator; and a failing check of a chain made before
\* records into the store the Validator has at the time of the check, so that
\* right after Clear() the store holds that one error and nothing else.
C24_BoundToValidator ==
    /\ [][(last'.op \in {"Clear", "Merge"}) =>
            (fields' = fields /\ groups' = groups /\ whens' = whens)]_vars
    /\ [][last'.op = "Group.Field" =>
            \E g \in 1..Len(groups) :
                fields'[last'.idx] =
                    MkFieldValidation(groups[g].name \o "." \o last'.field,
                                      last'.value, groups[g].v)]_vars
    /\ [][(last'.op = "FieldValidation.Check" /\ ~last'.valid) =>
            Records(fields[last'.idx].v, fields[last'.idx].field, last'.message)]_vars
    /\ [][(last'.op = "When.Check" /\ ~last'.valid) =>
            IF whens[last'.idx].condition
            THEN Records(whens[last'.idx].v, whens[last'.idx].field, last'.message)
            ELSE errors' = errors]_vars
    /\ [][(last.op = "Clear" /\ last'.op = "FieldValidation.Check" /\ ~last'.valid
             /\ last'.v = last.v) =>
            errors'[last'.v] =
                [k \in {fields[last'.idx].field} |->
                    <<ValidationError(fields[last'.idx].field, last'.message)>>]]_vars
    /\ [](hist = ScenarioAcrossClear =>
            /\ errors["v1"] = [k \in {"name"} |-> <<ValidationError("name", "a")>>]
            /\ ~whens[1].condition)

\* C24 witness: the chains were made and the Field chain recorded an error
\* before the Clear; after it the conditional chain, still false, skipped its
\* check and the Field chain recorded into the cleared store.
C24_Witness ==
    /\ hist = ScenarioAcrossClear
    /\ last.op = "FieldValidation.Check"
    /\ ~whens[1].condition
    /\ recorded["v1"] = <<ValidationError("name", "a")>>
    /\ HasErrorFor(errors["v1"], "name")

\* What a reader of v.errors finds in the objects, and the arrays it is kept in.
StoreOf(v) == View(heap, heap.mapOf[v])

ArraysOf(v) ==
    IF heap.mapOf[v] = 0 THEN {}
    ELSE {heap.maps[heap.mapOf[v]][k].arr : k \in DOMAIN heap.maps[heap.mapOf[v]]} \ {0}

\* C25: two distinct Validators share no storage, whatever Merge calls were
\* made between them: they have no map object and no backing array in common,
\* what a reader finds behind each is its own Error Store, and an AddError,
\* Check, Merge or Clear on one of them leaves every sequence of the other
\* unchanged.
C25_NoSharedStorage ==
    /\ [](\A v \in Validators : StoreOf(v) = errors[v])
    /\ [](\A v, u \in Validators :
            v # u => /\ (heap.mapOf[v] = 0 \/ heap.mapOf[v] # heap.mapOf[u])
                     /\ ArraysOf(v) \cap ArraysOf(u) = {})
    /\ [][(last'.op \in {"AddError", "Check", "Merge", "Clear"}) =>
            \A u \in Validators \ {last'.v} :
                View(heap', heap'.mapOf[u]) = StoreOf(u)]_vars

\* C25 witness: v2, holding an error, was merged into v1; then v1 and v2 each
\* got an error of its own, and each holds its own two.
C25_Witness ==
    /\ hist = ScenarioMergeThenAdd
    /\ MessagesOf(StoreOf("v1")["name"]) = <<"a", "b">>
    /\ MessagesOf(StoreOf("v2")["name"]) = <<"a", "a">>
    /\ ArraysOf("v1") # {}
    /\ ArraysOf("v2") # {}

\* C26: in every reachable state every ValidationError stored in the sequence
\* at key k has Field = k: the field given to AddError and Check, the
\* standalone key for standalone errors, the composite key group.name for the
\* fields of groups, and the key it came from for an error brought by Merge.
C26_FieldIsKey ==
    \A v \in Validators : \A k \in DOMAIN errors[v] :
        \A i \in 1..Len(errors[v][k]) : errors[v][k][i].Field = k

\* C26 witness: after a Merge v1 holds an error its group chain recorded under
\* "user.name" and a standalone error that v2 held.
C26_Witness ==
    /\ last.op = "Merge"
    /\ last.v = "v1"
    /\ last.other = "v2"
    /\ HasStandaloneErrors(errors["v2"])
    /\ DOMAIN errors["v1"] = {"user.name", StandaloneErrorKey}
    /\ errors["v1"]["user.name"][1].Field = "user.name"
    /\ errors["v1"][StandaloneErrorKey][1].Field = StandaloneErrorKey

\* The step is a Clear() on Validator v.
ClearOf(v) == last'.op = "Clear" /\ last'.v = v

C28_MergeIdentity ==
    [][(last'.op = "Merge" /\ last'.other \in Validators) =>
        LET v == last'.v
            o == last'.other
        IN /\ ~HasErrors(errors[o]) => errors'[v] = errors[v]
           /\ ~HasErrors(errors[v]) => errors'[v] = errors[o]
           /\ isNil[v] => errors'[v] = errors[o]
           /\ (last.op = "Clear" /\ last.v = v) => errors'[v] = errors[o]
           /\ errors'[o] = IF o = v THEN errors'[v] ELSE errors[o]]_vars

\* C28 witness: v2, with an error of a field and a standalone error, was
\* merged into v1, which had recorded nothing; v1 holds the same sequences.
C28_Witness ==
    /\ last.op = "Merge"
    /\ last.v = "v1"
    /\ last.other = "v2"
    /\ DOMAIN errors["v2"] = {"name", StandaloneErrorKey}
    /\ MessagesOf(errors["v2"]["name"]) = <<"b">>
    /\ recorded["v1"] = recorded["v2"]
    /\ errors["v1"] = errors["v2"]

\* The step is a call that changes or may change a store, what the caller
\* holds staying the result of the call it made before.
Keeping(kind) ==
    /\ held.kind = kind
    /\ last'.op \notin {"ValidationErrors", "Errors"}

\* What the caller finds in the mapping it holds.
HeldView == View(heap, held.map)

\* The parts of C29 that hold as stated: a Clear() leaves the mapping
\* ValidationErrors() returned with the contents it had before, and no later
\* call changes them; Errors() returns the joined messages of the store as it
\* is at the call, in a map no later call changes.
Detached ==
    /\ [][(Keeping("ValidationErrors") /\ ClearOf(held.v)) =>
            /\ View(heap', held'.map) = HeldView
            /\ held'.map # heap'.mapOf[held.v]]_vars
    /\ [][(Keeping("ValidationErrors") /\ held.map # heap.mapOf[held.v]) =>
            /\ View(heap', held'.map) = HeldView
            /\ held'.map # heap'.mapOf[held.v]]_vars
    /\ [][last'.op = "Errors" => held'.value = Errors(errors'[last'.v])]_vars
    /\ [][Keeping("Errors") => held' = held]_vars

\* C29, as stated: the mapping ValidationErrors() returned is the store
\* itself, on whatever Validator it was called: from the call until a Clear()
\* of the Validator, the errors the Validator holds are those found in the
\* mapping.
C29_LiveStore ==
    /\ [][last'.op = "ValidationErrors" =>
            /\ held'.map = heap'.mapOf[last'.v]
            /\ View(heap', held'.map) = errors'[last'.v]]_vars
    /\ [][(Keeping("ValidationErrors") /\ held.map = heap.mapOf[held.v]
             /\ ~ClearOf(held.v)) =>
            /\ held'.map = heap'.mapOf[held.v]
            /\ View(heap', held'.map) = errors'[held.v]]_vars
    /\ Detached

\* C29, amended: the mapping ValidationErrors() returned is the store itself
\* when the Validator had its map at the call (it was made by New(), or a
\* call that records, merges or clears was made on it before): then, until a
\* Clear() of the Validator, the errors the Validator holds are those found in
\* the mapping.  Called on a Validator never initialised, ValidationErrors()
\* returns the nil mapping, which stays empty whatever is recorded later.
C29_LiveStoreOnceMade ==
    /\ [][last'.op = "ValidationErrors" =>
            /\ held'.map = heap'.mapOf[last'.v]
            /\ View(heap', held'.map) = errors'[last'.v]]_vars
    /\ [][(Keeping("ValidationErrors") /\ held.map = heap.mapOf[held.v]
             /\ held.map # 0 /\ ~ClearOf(held.v)) =>
            /\ held'.map = heap'.mapOf[held.v]
            /\ View(heap', held'.map) = errors'[held.v]]_vars
    /\ [][(Keeping("ValidationErrors") /\ held.map = 0) =>
            (held'.map = 0 /\ View(heap', held'.map) = EmptyStore)]_vars
    /\ Detached

\* C29 witness: the caller holds the mapping ValidationErrors() returned, the
\* Validator's own map; an error was added after the call, and the mapping has
\* the two errors of the Validator.
C29_Witness ==
    /\ held.kind = "ValidationErrors"
    /\ last.op = "AddError"
    /\ last.v = held.v
    /\ held.map # 0
    /\ held.map = heap.mapOf[held.v]
    /\ MessagesOf(HeldView["name"]) = <<"a", "b">>
    /\ HeldView = errors[held.v]

====
